---- MODULE Spec2Model ----
\* Partial paths of a stack graph (src/src/partial.rs): the partial symbol and
\* scope stacks, PartialPath::from_node / append / resolve and the predicates on
\* a path, and the per-file enumeration loop.
\*
\* Arena deques (crate::arena::Deque) are value-like sequences: a stack is a
\* TLA+ sequence whose head is the front of the deque.  Handles are positive
\* integers.  Option<ScopeStackVariable> is a NonZeroU32 niche: None is 0.
EXTENDS Integers, Sequences, FiniteSets, TLC

\* One path driven by a caller.
VARIABLES path, prev, prev2, op, op2, ok_appends, jumps_resolved, calls

\* One run of find_all_partial_paths_in_file.
VARIABLES pc, graph_edges, policy, queue, cycle_detector, visited, iterations

\* What that run did, in the order of its statements: the paths it seeded the
\* queue with, the paths it dequeued, the detector's answers, the paths it
\* pushed, the paths it visited.
VARIABLES log

\* The calls a caller made on ScopeStackVariable itself, oldest first, with
\* what each gave back.
VARIABLES variable_calls

pathVars == <<path, prev, prev2, op, op2, ok_appends, jumps_resolved, calls>>

enumVars ==
  <<pc, graph_edges, policy, queue, cycle_detector, visited, iterations, log>>

variableVars == <<variable_calls>>

vars == <<pathVars, enumVars, variableVars>>

-----------------------------------------------------------------------------
\* Bounds of the model.

\* The caller makes at most this many append and resolve calls on its path.
MaxCalls == 3

\* The enumeration loop is followed for at most this many iterations.
MaxIterations == 10

-----------------------------------------------------------------------------
\* The stack graph the paths run over (crate::graph).  One node of every kind
\* the engine distinguishes, two symbols, so that a pop can meet the wrong
\* symbol, and a second file with an exported scope and a scoped push of its own.

\* Handles are positive; 0 stands for a field the node kind does not have.
\* Symbol 1 is "a" and symbol 2 is "b".  file 0: the node is in no file (the
\* root and the jump-to node); file 1 is the file under analysis.
NodeTable ==
  << [kind |-> "Root",             symbol |-> 0, scope |-> 0, file |-> 0],
     [kind |-> "JumpTo",           symbol |-> 0, scope |-> 0, file |-> 0],
     [kind |-> "ExportedScope",    symbol |-> 0, scope |-> 0, file |-> 1],
     [kind |-> "PushSymbol",       symbol |-> 1, scope |-> 0, file |-> 1],
     [kind |-> "PushScopedSymbol", symbol |-> 1, scope |-> 3, file |-> 1],
     [kind |-> "PopSymbol",        symbol |-> 1, scope |-> 0, file |-> 1],
     [kind |-> "PopScopedSymbol",  symbol |-> 1, scope |-> 0, file |-> 1],
     [kind |-> "DropScopes",       symbol |-> 0, scope |-> 0, file |-> 1],
     [kind |-> "Scope",            symbol |-> 0, scope |-> 0, file |-> 1],
     [kind |-> "PushSymbol",       symbol |-> 2, scope |-> 0, file |-> 1],
     [kind |-> "ExportedScope",    symbol |-> 0, scope |-> 0, file |-> 2],
     [kind |-> "PushScopedSymbol", symbol |-> 2, scope |-> 11, file |-> 2] >>

NodeHandles == DOMAIN NodeTable

Kind(node) == NodeTable[node].kind

is_jump_to(node) == Kind(node) = "JumpTo"

\* The edges a caller may hand to append on a path that ends at node: every
\* edge that leaves node, and every edge that leaves the next handle instead.
OtherNode(node) == (node % Len(NodeTable)) + 1

EdgesAt(node) == [source : {node, OtherNode(node)}, sink : NodeHandles]

-----------------------------------------------------------------------------
\* Scope stack variables.  None, of Option<ScopeStackVariable>, is 0.

NoVariable == 0

initial == 1

\* Mutant of fresher_than: the increment is missing.
fresher_than_same(max_used) == max_used

fresher_than(max_used) == max_used + 1

as_u32(variable) == variable

-----------------------------------------------------------------------------
\* Scope stack variables at the full width of u32.  The paths of this model
\* hold variable numbers far below the u32 limit, where the operators above
\* are exact.  Here a u32 is its two 16-bit halves, [hi, lo], so that every
\* value up to 2^32 - 1 is a value of the model and max_used + 1 can overflow.

\* 2^16: each half of a u32 takes this many values.
Half == 65536

u32(hi, lo) == [hi |-> hi, lo |-> lo]

u32_zero == u32(0, 0)

u32_one == u32(0, 1)

u32_MAX == u32(Half - 1, Half - 1)

\* value + 1 does not fit in a u32.
add_one_overflows(value) == value = u32_MAX

\* value + 1 as the machine adds, modulo 2^32.
wrapping_add_one(value) ==
  IF value.lo < Half - 1 THEN u32(value.hi, value.lo + 1)
  ELSE IF value.hi < Half - 1 THEN u32(value.hi + 1, 0)
  ELSE u32_zero

\* The tuple struct: ScopeStackVariable(NonZeroU32).  NonZeroU32 has the
\* layout of u32, so the field holds whatever bits it was built from.
ScopeStackVariable(nonzero) == [nonzero |-> nonzero]

\* What a call that gave no variable back leaves in the record of the call.
NoVariableMade == ScopeStackVariable(u32_zero)

ScopeStackVariable_initial ==
  [result |-> "Ok", variable |-> ScopeStackVariable(u32_one)]

\* fresher_than(max_used): the outcomes a build can produce.  max_used + 1 is
\* an unchecked u32 addition handed to NonZeroU32::new_unchecked.  When it
\* overflows, a build with overflow checks panics, and a build without them
\* wraps to 0 and calls new_unchecked(0), which is undefined behaviour: the
\* variable it returns holds 0.
ScopeStackVariable_fresher_than(max_used) ==
  IF add_one_overflows(max_used)
  THEN { [result |-> "panic", variable |-> NoVariableMade],
         [result |-> "Ok",
          variable |-> ScopeStackVariable(wrapping_add_one(max_used))] }
  ELSE { [result |-> "Ok",
          variable |-> ScopeStackVariable(wrapping_add_one(max_used))] }

\* Into<u32>: self.0.get().
ScopeStackVariable_into(variable) == variable.nonzero

\* TryFrom<u32>: NonZeroU32::new(value) is None for 0, and ok_or(())? returns
\* Err(()) then.
ScopeStackVariable_try_from(value) ==
  IF value = u32_zero
  THEN [result |-> "Err", variable |-> NoVariableMade]
  ELSE [result |-> "Ok", variable |-> ScopeStackVariable(value)]

\* No call has been made on ScopeStackVariable.
VariableIdle == variable_calls = <<>>

-----------------------------------------------------------------------------
\* Partial scope stacks: [scopes, variable].

ScopeStack_empty == [scopes |-> <<>>, variable |-> NoVariable]

from_variable(variable) == [scopes |-> <<>>, variable |-> variable]

\* Mutant of can_only_match_empty: the variable is not looked at.
can_only_match_empty_ignoring_variable(s) == s.scopes = <<>>

can_only_match_empty(s) == s.scopes = <<>> /\ s.variable = NoVariable

contains_scopes(s) == s.scopes # <<>>

ScopeStack_push_front(s, node) == [s EXCEPT !.scopes = <<node>> \o @]

\* pop_front of a stack that holds a scope: the popped node and the rest.
ScopeStack_pop_front(s) ==
  [node |-> Head(s.scopes), rest |-> [s EXCEPT !.scopes = Tail(@)]]

\* Mutant of PartialScopeStack::matches: the variables are not compared.
RECURSIVE ScopeStack_matches_ignoring_variable(_, _)
ScopeStack_matches_ignoring_variable(self, other) ==
  IF self.scopes # <<>>
  THEN IF other.scopes # <<>>
       THEN IF Head(self.scopes) # Head(other.scopes)
            THEN FALSE
            ELSE ScopeStack_matches_ignoring_variable(
                   ScopeStack_pop_front(self).rest,
                   ScopeStack_pop_front(other).rest)
       ELSE FALSE
  ELSE IF contains_scopes(other)
       THEN FALSE
       ELSE TRUE

RECURSIVE ScopeStack_matches(_, _)
ScopeStack_matches(self, other) ==
  IF self.scopes # <<>>
  THEN IF other.scopes # <<>>
       THEN IF Head(self.scopes) # Head(other.scopes)
            THEN FALSE
            ELSE ScopeStack_matches(ScopeStack_pop_front(self).rest,
                                    ScopeStack_pop_front(other).rest)
       ELSE FALSE
  ELSE IF contains_scopes(other)
       THEN FALSE
       ELSE self.variable = other.variable

-----------------------------------------------------------------------------
\* Partial scoped symbols: [symbol, scopes], scopes an Option<PartialScopeStack>.

None == [some |-> FALSE, stack |-> ScopeStack_empty]

Some(s) == [some |-> TRUE, stack |-> s]

ScopedSymbol_matches(self, postcondition) ==
  IF self.symbol # postcondition.symbol
  THEN FALSE
  ELSE IF (~self.scopes.some) # (~postcondition.scopes.some)
  THEN FALSE
  ELSE IF self.scopes.some /\ postcondition.scopes.some
  THEN ScopeStack_matches(self.scopes.stack, postcondition.scopes.stack)
  ELSE TRUE

-----------------------------------------------------------------------------
\* Partial symbol stacks: sequences of partial scoped symbols.

SymbolStack_empty == <<>>

SymbolStack_is_empty(s) == s = <<>>

SymbolStack_push_front(s, symbol) == <<symbol>> \o s

\* Mutant of push_back: the symbol goes to the front.
SymbolStack_push_back_as_front(s, symbol) == <<symbol>> \o s

SymbolStack_push_back(s, symbol) == Append(s, symbol)

RECURSIVE SymbolStack_matches(_, _)
SymbolStack_matches(self, other) ==
  IF self # <<>>
  THEN IF other # <<>>
       THEN IF ~ScopedSymbol_matches(Head(self), Head(other))
            THEN FALSE
            ELSE SymbolStack_matches(Tail(self), Tail(other))
       ELSE FALSE
  ELSE SymbolStack_is_empty(other)

-----------------------------------------------------------------------------
\* Partial paths.

\* Mutant of from_node: the scope stack precondition starts without a variable.
from_node_empty_precondition(node) ==
  LET inner_node == NodeTable[node]
      initial_scope_stack == initial
      base == [start_node |-> node,
               end_node |-> node,
               symbol_stack_precondition |-> SymbolStack_empty,
               symbol_stack_postcondition |-> SymbolStack_empty,
               scope_stack_precondition |-> ScopeStack_empty,
               scope_stack_postcondition |-> from_variable(initial_scope_stack),
               edge_count |-> 0]
  IN  IF inner_node.kind = "PushScopedSymbol"
      THEN LET post == ScopeStack_push_front(ScopeStack_empty, inner_node.scope)
               initial_symbol == [symbol |-> inner_node.symbol, scopes |-> Some(post)]
           IN  [base EXCEPT
                  !.scope_stack_precondition = ScopeStack_empty,
                  !.scope_stack_postcondition = post,
                  !.symbol_stack_postcondition =
                      SymbolStack_push_front(SymbolStack_empty, initial_symbol)]
      ELSE IF inner_node.kind = "PushSymbol"
      THEN LET initial_symbol == [symbol |-> inner_node.symbol, scopes |-> None]
           IN  [base EXCEPT
                  !.scope_stack_precondition = ScopeStack_empty,
                  !.scope_stack_postcondition = ScopeStack_empty,
                  !.symbol_stack_postcondition =
                      SymbolStack_push_front(SymbolStack_empty, initial_symbol)]
      ELSE base

\* Mutant of from_node: at a PushScopedSymbol node the scope list is attached
\* to the symbol before the node's scope is pushed on it.
from_node_attaches_before_push(node) ==
  LET inner_node == NodeTable[node]
      initial_scope_stack == initial
      base == [start_node |-> node,
               end_node |-> node,
               symbol_stack_precondition |-> SymbolStack_empty,
               symbol_stack_postcondition |-> SymbolStack_empty,
               scope_stack_precondition |-> from_variable(initial_scope_stack),
               scope_stack_postcondition |-> from_variable(initial_scope_stack),
               edge_count |-> 0]
  IN  IF inner_node.kind = "PushScopedSymbol"
      THEN LET post == ScopeStack_push_front(ScopeStack_empty, inner_node.scope)
               initial_symbol == [symbol |-> inner_node.symbol,
                                  scopes |-> Some(ScopeStack_empty)]
           IN  [base EXCEPT
                  !.scope_stack_precondition = ScopeStack_empty,
                  !.scope_stack_postcondition = post,
                  !.symbol_stack_postcondition =
                      SymbolStack_push_front(SymbolStack_empty, initial_symbol)]
      ELSE IF inner_node.kind = "PushSymbol"
      THEN LET initial_symbol == [symbol |-> inner_node.symbol, scopes |-> None]
           IN  [base EXCEPT
                  !.scope_stack_precondition = ScopeStack_empty,
                  !.scope_stack_postcondition = ScopeStack_empty,
                  !.symbol_stack_postcondition =
                      SymbolStack_push_front(SymbolStack_empty, initial_symbol)]
      ELSE base

from_node(node) ==
  LET inner_node == NodeTable[node]
      initial_scope_stack == initial
      base == [start_node |-> node,
               end_node |-> node,
               symbol_stack_precondition |-> SymbolStack_empty,
               symbol_stack_postcondition |-> SymbolStack_empty,
               scope_stack_precondition |-> from_variable(initial_scope_stack),
               scope_stack_postcondition |-> from_variable(initial_scope_stack),
               edge_count |-> 0]
  IN  IF inner_node.kind = "PushScopedSymbol"
      THEN LET post == ScopeStack_push_front(ScopeStack_empty, inner_node.scope)
               initial_symbol == [symbol |-> inner_node.symbol, scopes |-> Some(post)]
           IN  [base EXCEPT
                  !.scope_stack_precondition = ScopeStack_empty,
                  !.scope_stack_postcondition = post,
                  !.symbol_stack_postcondition =
                      SymbolStack_push_front(SymbolStack_empty, initial_symbol)]
      ELSE IF inner_node.kind = "PushSymbol"
      THEN LET initial_symbol == [symbol |-> inner_node.symbol, scopes |-> None]
           IN  [base EXCEPT
                  !.scope_stack_precondition = ScopeStack_empty,
                  !.scope_stack_postcondition = ScopeStack_empty,
                  !.symbol_stack_postcondition =
                      SymbolStack_push_front(SymbolStack_empty, initial_symbol)]
      ELSE base

\* What a stack graph records besides the node kinds: which push nodes are
\* references and which pop nodes are definitions (crate::graph).  The graphs
\* that mark nodes among the given ones.
Graphs(nodes) ==
  [references : SUBSET { n \in nodes :
                           Kind(n) \in {"PushSymbol", "PushScopedSymbol"} },
   definitions : SUBSET { n \in nodes :
                            Kind(n) \in {"PopSymbol", "PopScopedSymbol"} }]

is_reference(graph, node) == node \in graph.references

is_definition(graph, node) == node \in graph.definitions

\* Mutant of is_complete_as_possible: a definition ends a complete path
\* whatever is left on the symbol stack postcondition.
is_complete_as_possible_ignoring_postcondition(self, graph) ==
  LET start_ok ==
        IF Kind(self.start_node) \in {"Root", "ExportedScope"}
        THEN TRUE
        ELSE IF Kind(self.start_node) \in {"PushScopedSymbol", "PushSymbol"}
        THEN IF ~is_reference(graph, self.start_node)
             THEN FALSE
             ELSE IF ~SymbolStack_is_empty(self.symbol_stack_precondition)
             THEN FALSE
             ELSE TRUE
        ELSE FALSE
      end_ok ==
        IF Kind(self.end_node) \in {"Root", "JumpTo"}
        THEN TRUE
        ELSE IF Kind(self.end_node) \in {"PopScopedSymbol", "PopSymbol"}
        THEN IF ~is_definition(graph, self.end_node)
             THEN FALSE
             ELSE TRUE
        ELSE FALSE
  IN  IF ~start_ok THEN FALSE ELSE end_ok

is_complete_as_possible(self, graph) ==
  LET start_ok ==
        IF Kind(self.start_node) \in {"Root", "ExportedScope"}
        THEN TRUE
        ELSE IF Kind(self.start_node) \in {"PushScopedSymbol", "PushSymbol"}
        THEN IF ~is_reference(graph, self.start_node)
             THEN FALSE
             ELSE IF ~SymbolStack_is_empty(self.symbol_stack_precondition)
             THEN FALSE
             ELSE TRUE
        ELSE FALSE
      end_ok ==
        IF Kind(self.end_node) \in {"Root", "JumpTo"}
        THEN TRUE
        ELSE IF Kind(self.end_node) \in {"PopScopedSymbol", "PopSymbol"}
        THEN IF ~is_definition(graph, self.end_node)
             THEN FALSE
             ELSE IF ~SymbolStack_is_empty(self.symbol_stack_postcondition)
             THEN FALSE
             ELSE TRUE
        ELSE FALSE
  IN  IF ~start_ok THEN FALSE ELSE end_ok

\* Mutant of is_productive: the symbol stacks are not compared.
is_productive_scopes_only(self) ==
  IF self.start_node # self.end_node
  THEN TRUE
  ELSE IF ~ScopeStack_matches(self.scope_stack_precondition,
                              self.scope_stack_postcondition)
  THEN TRUE
  ELSE FALSE

is_productive(self) ==
  IF self.start_node # self.end_node
  THEN TRUE
  ELSE IF ~SymbolStack_matches(self.symbol_stack_precondition,
                               self.symbol_stack_postcondition)
  THEN TRUE
  ELSE IF ~ScopeStack_matches(self.scope_stack_precondition,
                              self.scope_stack_postcondition)
  THEN TRUE
  ELSE FALSE

SetMax(S) == CHOOSE x \in S : \A y \in S : y <= x

\* The variables the preconditions hold, as fresh_scope_stack_variable collects them.
symbol_stack_precondition_variables(self) ==
  { as_u32(self.symbol_stack_precondition[i].scopes.stack.variable) :
      i \in { j \in DOMAIN self.symbol_stack_precondition :
                /\ self.symbol_stack_precondition[j].scopes.some
                /\ self.symbol_stack_precondition[j].scopes.stack.variable # NoVariable } }

scope_stack_precondition_variables(self) ==
  IF self.scope_stack_precondition.variable # NoVariable
  THEN {as_u32(self.scope_stack_precondition.variable)}
  ELSE {}

\* Mutant of fresh_scope_stack_variable: the variable of the scope stack
\* precondition is not chained in.
fresh_scope_stack_variable_symbols_only(self) ==
  LET used == symbol_stack_precondition_variables(self)
      max_used_variable == IF used = {} THEN 0 ELSE SetMax(used)
  IN  fresher_than(max_used_variable)

fresh_scope_stack_variable(self) ==
  LET used == symbol_stack_precondition_variables(self)
                \cup scope_stack_precondition_variables(self)
      max_used_variable == IF used = {} THEN 0 ELSE SetMax(used)
  IN  fresher_than(max_used_variable)

\* append, one operator per kind of sink.  Each gives the path after that
\* branch's stack updates and the result; a branch that fails may already have
\* popped the symbol stack postcondition of self.

append_push_symbol(self, sink) ==
  LET postcondition_symbol == [symbol |-> sink.symbol, scopes |-> None]
  IN  [path |-> [self EXCEPT !.symbol_stack_postcondition =
                                SymbolStack_push_front(@, postcondition_symbol)],
       result |-> "Ok"]

\* Mutant of the PushScopedSymbol branch: the attached scope list becomes the
\* scope stack postcondition as well.
append_push_scoped_symbol_moves_scope_stack(self, sink) ==
  LET attached_scopes ==
        ScopeStack_push_front(self.scope_stack_postcondition, sink.scope)
      postcondition_symbol ==
        [symbol |-> sink.symbol, scopes |-> Some(attached_scopes)]
  IN  [path |-> [self EXCEPT !.symbol_stack_postcondition =
                                SymbolStack_push_front(@, postcondition_symbol),
                             !.scope_stack_postcondition = attached_scopes],
       result |-> "Ok"]

\* Mutant of the PushScopedSymbol branch: the node's scope is not pushed on
\* the attached scope list.
append_push_scoped_symbol_without_scope(self, sink) ==
  LET attached_scopes == self.scope_stack_postcondition
      postcondition_symbol ==
        [symbol |-> sink.symbol, scopes |-> Some(attached_scopes)]
  IN  [path |-> [self EXCEPT !.symbol_stack_postcondition =
                                SymbolStack_push_front(@, postcondition_symbol)],
       result |-> "Ok"]

append_push_scoped_symbol(self, sink) ==
  LET attached_scopes ==
        ScopeStack_push_front(self.scope_stack_postcondition, sink.scope)
      postcondition_symbol ==
        [symbol |-> sink.symbol, scopes |-> Some(attached_scopes)]
  IN  [path |-> [self EXCEPT !.symbol_stack_postcondition =
                                SymbolStack_push_front(@, postcondition_symbol)],
       result |-> "Ok"]

\* Mutant of the PopSymbol branch: the attached scope list is tested before
\* the symbol.
append_pop_symbol_attached_first(self, sink) ==
  IF ~SymbolStack_is_empty(self.symbol_stack_postcondition)
  THEN LET top == Head(self.symbol_stack_postcondition)
           popped == [self EXCEPT !.symbol_stack_postcondition = Tail(@)]
       IN  IF top.scopes.some
           THEN [path |-> popped, result |-> "UnexpectedAttachedScopeList"]
           ELSE IF top.symbol # sink.symbol
           THEN [path |-> popped, result |-> "IncorrectPoppedSymbol"]
           ELSE [path |-> popped, result |-> "Ok"]
  ELSE LET precondition_symbol == [symbol |-> sink.symbol, scopes |-> None]
       IN  [path |-> [self EXCEPT !.symbol_stack_precondition =
                                     SymbolStack_push_back(@, precondition_symbol)],
            result |-> "Ok"]

\* Mutant of the PopSymbol branch: below an empty postcondition the popped
\* symbol is not recorded in the precondition.
append_pop_symbol_unrecorded(self, sink) ==
  IF ~SymbolStack_is_empty(self.symbol_stack_postcondition)
  THEN LET top == Head(self.symbol_stack_postcondition)
           popped == [self EXCEPT !.symbol_stack_postcondition = Tail(@)]
       IN  IF top.symbol # sink.symbol
           THEN [path |-> popped, result |-> "IncorrectPoppedSymbol"]
           ELSE IF top.scopes.some
           THEN [path |-> popped, result |-> "UnexpectedAttachedScopeList"]
           ELSE [path |-> popped, result |-> "Ok"]
  ELSE [path |-> self, result |-> "Ok"]

append_pop_symbol(self, sink) ==
  IF ~SymbolStack_is_empty(self.symbol_stack_postcondition)
  THEN LET top == Head(self.symbol_stack_postcondition)
           popped == [self EXCEPT !.symbol_stack_postcondition = Tail(@)]
       IN  IF top.symbol # sink.symbol
           THEN [path |-> popped, result |-> "IncorrectPoppedSymbol"]
           ELSE IF top.scopes.some
           THEN [path |-> popped, result |-> "UnexpectedAttachedScopeList"]
           ELSE [path |-> popped, result |-> "Ok"]
  ELSE LET precondition_symbol == [symbol |-> sink.symbol, scopes |-> None]
       IN  [path |-> [self EXCEPT !.symbol_stack_precondition =
                                     SymbolStack_push_back(@, precondition_symbol)],
            result |-> "Ok"]

\* Mutant of the PopScopedSymbol branch: below an empty postcondition the
\* precondition symbol gets no attached scope list, as in the PopSymbol branch.
append_pop_scoped_symbol_unattached(self, sink) ==
  IF ~SymbolStack_is_empty(self.symbol_stack_postcondition)
  THEN LET top == Head(self.symbol_stack_postcondition)
           popped == [self EXCEPT !.symbol_stack_postcondition = Tail(@)]
       IN  IF top.symbol # sink.symbol
           THEN [path |-> popped, result |-> "IncorrectPoppedSymbol"]
           ELSE IF ~top.scopes.some
           THEN [path |-> popped, result |-> "MissingAttachedScopeList"]
           ELSE [path |-> [popped EXCEPT
                             !.scope_stack_postcondition = top.scopes.stack],
                 result |-> "Ok"]
  ELSE LET scope_stack_variable == fresh_scope_stack_variable(self)
           precondition_symbol == [symbol |-> sink.symbol, scopes |-> None]
       IN  [path |-> [self EXCEPT
                        !.symbol_stack_precondition =
                            SymbolStack_push_back(@, precondition_symbol),
                        !.scope_stack_postcondition =
                            from_variable(scope_stack_variable)],
            result |-> "Ok"]

\* Mutant of the PopScopedSymbol branch: the popped symbol's attached scope
\* list does not replace the scope stack postcondition.
append_pop_scoped_symbol_keeps_scope_stack(self, sink) ==
  IF ~SymbolStack_is_empty(self.symbol_stack_postcondition)
  THEN LET top == Head(self.symbol_stack_postcondition)
           popped == [self EXCEPT !.symbol_stack_postcondition = Tail(@)]
       IN  IF top.symbol # sink.symbol
           THEN [path |-> popped, result |-> "IncorrectPoppedSymbol"]
           ELSE IF ~top.scopes.some
           THEN [path |-> popped, result |-> "MissingAttachedScopeList"]
           ELSE [path |-> popped, result |-> "Ok"]
  ELSE LET scope_stack_variable == fresh_scope_stack_variable(self)
           precondition_symbol ==
             [symbol |-> sink.symbol,
              scopes |-> Some(from_variable(scope_stack_variable))]
       IN  [path |-> [self EXCEPT
                        !.symbol_stack_precondition =
                            SymbolStack_push_back(@, precondition_symbol),
                        !.scope_stack_postcondition =
                            from_variable(scope_stack_variable)],
            result |-> "Ok"]

\* Mutant of the PopScopedSymbol branch: below an empty postcondition the
\* precondition symbol gets an attached scope list that is empty.
append_pop_scoped_symbol_attaches_empty(self, sink) ==
  IF ~SymbolStack_is_empty(self.symbol_stack_postcondition)
  THEN LET top == Head(self.symbol_stack_postcondition)
           popped == [self EXCEPT !.symbol_stack_postcondition = Tail(@)]
       IN  IF top.symbol # sink.symbol
           THEN [path |-> popped, result |-> "IncorrectPoppedSymbol"]
           ELSE IF ~top.scopes.some
           THEN [path |-> popped, result |-> "MissingAttachedScopeList"]
           ELSE [path |-> [popped EXCEPT
                             !.scope_stack_postcondition = top.scopes.stack],
                 result |-> "Ok"]
  ELSE LET scope_stack_variable == fresh_scope_stack_variable(self)
           precondition_symbol ==
             [symbol |-> sink.symbol, scopes |-> Some(ScopeStack_empty)]
       IN  [path |-> [self EXCEPT
                        !.symbol_stack_precondition =
                            SymbolStack_push_back(@, precondition_symbol),
                        !.scope_stack_postcondition =
                            from_variable(scope_stack_variable)],
            result |-> "Ok"]

append_pop_scoped_symbol(self, sink) ==
  IF ~SymbolStack_is_empty(self.symbol_stack_postcondition)
  THEN LET top == Head(self.symbol_stack_postcondition)
           popped == [self EXCEPT !.symbol_stack_postcondition = Tail(@)]
       IN  IF top.symbol # sink.symbol
           THEN [path |-> popped, result |-> "IncorrectPoppedSymbol"]
           ELSE IF ~top.scopes.some
           THEN [path |-> popped, result |-> "MissingAttachedScopeList"]
           ELSE [path |-> [popped EXCEPT
                             !.scope_stack_postcondition = top.scopes.stack],
                 result |-> "Ok"]
  ELSE LET scope_stack_variable == fresh_scope_stack_variable(self)
           precondition_symbol ==
             [symbol |-> sink.symbol,
              scopes |-> Some(from_variable(scope_stack_variable))]
       IN  [path |-> [self EXCEPT
                        !.symbol_stack_precondition =
                            SymbolStack_push_back(@, precondition_symbol),
                        !.scope_stack_postcondition =
                            from_variable(scope_stack_variable)],
            result |-> "Ok"]

append_drop_scopes(self) ==
  [path |-> [self EXCEPT !.scope_stack_postcondition = ScopeStack_empty],
   result |-> "Ok"]

\* Mutant of append: the source of the edge is tested after the sink's branch
\* has worked on the stacks.
append_checks_source_late(self, edge) ==
  LET sink == NodeTable[edge.sink]
      r == IF sink.kind = "PushSymbol" THEN append_push_symbol(self, sink)
           ELSE IF sink.kind = "PushScopedSymbol"
           THEN append_push_scoped_symbol(self, sink)
           ELSE IF sink.kind = "PopSymbol" THEN append_pop_symbol(self, sink)
           ELSE IF sink.kind = "PopScopedSymbol"
           THEN append_pop_scoped_symbol(self, sink)
           ELSE IF sink.kind = "DropScopes" THEN append_drop_scopes(self)
           ELSE [path |-> self, result |-> "Ok"]
  IN  IF r.result # "Ok"
      THEN r
      ELSE IF edge.source # self.end_node
      THEN [path |-> r.path, result |-> "IncorrectSourceNode"]
      ELSE [path |-> [r.path EXCEPT !.end_node = edge.sink,
                                    !.edge_count = @ + 1],
            result |-> "Ok"]

append(self, edge) ==
  LET sink == NodeTable[edge.sink]
      r == IF sink.kind = "PushSymbol" THEN append_push_symbol(self, sink)
           ELSE IF sink.kind = "PushScopedSymbol"
           THEN append_push_scoped_symbol(self, sink)
           ELSE IF sink.kind = "PopSymbol" THEN append_pop_symbol(self, sink)
           ELSE IF sink.kind = "PopScopedSymbol"
           THEN append_pop_scoped_symbol(self, sink)
           ELSE IF sink.kind = "DropScopes" THEN append_drop_scopes(self)
           ELSE [path |-> self, result |-> "Ok"]
  IN  IF edge.source # self.end_node
      THEN [path |-> self, result |-> "IncorrectSourceNode"]
      ELSE IF r.result # "Ok"
      THEN r
      ELSE [path |-> [r.path EXCEPT !.end_node = edge.sink,
                                    !.edge_count = @ + 1],
            result |-> "Ok"]

\* Mutant of resolve: the popped scope is not counted as an edge.
resolve_uncounted(self) ==
  IF ~is_jump_to(self.end_node)
  THEN [path |-> self, result |-> "Ok"]
  ELSE IF can_only_match_empty(self.scope_stack_postcondition)
  THEN [path |-> self, result |-> "EmptyScopeStack"]
  ELSE IF ~contains_scopes(self.scope_stack_postcondition)
  THEN [path |-> self, result |-> "Ok"]
  ELSE LET top == ScopeStack_pop_front(self.scope_stack_postcondition)
       IN  [path |-> [self EXCEPT !.scope_stack_postcondition = top.rest,
                                  !.end_node = top.node],
            result |-> "Ok"]

\* Mutant of resolve: the popped scope does not become the end node.
resolve_keeps_end_node(self) ==
  IF ~is_jump_to(self.end_node)
  THEN [path |-> self, result |-> "Ok"]
  ELSE IF can_only_match_empty(self.scope_stack_postcondition)
  THEN [path |-> self, result |-> "EmptyScopeStack"]
  ELSE IF ~contains_scopes(self.scope_stack_postcondition)
  THEN [path |-> self, result |-> "Ok"]
  ELSE LET top == ScopeStack_pop_front(self.scope_stack_postcondition)
       IN  [path |-> [self EXCEPT !.scope_stack_postcondition = top.rest,
                                  !.edge_count = @ + 1],
            result |-> "Ok"]

\* Mutant of resolve: an exhausted scope stack is not an error.
resolve_without_empty_check(self) ==
  IF ~is_jump_to(self.end_node)
  THEN [path |-> self, result |-> "Ok"]
  ELSE IF ~contains_scopes(self.scope_stack_postcondition)
  THEN [path |-> self, result |-> "Ok"]
  ELSE LET top == ScopeStack_pop_front(self.scope_stack_postcondition)
       IN  [path |-> [self EXCEPT !.scope_stack_postcondition = top.rest,
                                  !.end_node = top.node,
                                  !.edge_count = @ + 1],
            result |-> "Ok"]

\* Mutant of resolve: every jump is left for later, whatever the scope stack
\* postcondition holds.
resolve_defers_every_jump(self) == [path |-> self, result |-> "Ok"]

resolve(self) ==
  IF ~is_jump_to(self.end_node)
  THEN [path |-> self, result |-> "Ok"]
  ELSE IF can_only_match_empty(self.scope_stack_postcondition)
  THEN [path |-> self, result |-> "EmptyScopeStack"]
  ELSE IF ~contains_scopes(self.scope_stack_postcondition)
  THEN [path |-> self, result |-> "Ok"]
  ELSE LET top == ScopeStack_pop_front(self.scope_stack_postcondition)
       IN  [path |-> [self EXCEPT !.scope_stack_postcondition = top.rest,
                                  !.end_node = top.node,
                                  !.edge_count = @ + 1],
            result |-> "Ok"]

-----------------------------------------------------------------------------
\* One path driven by a caller: from_node, then any appends and resolves.
\* prev / prev2 are the path before the last call and before the call before
\* it; op / op2 are those calls; ok_appends and jumps_resolved count the
\* appends that returned Ok and the resolves that popped a scope.

NoOp == [kind |-> "none", source |-> 0, sink |-> 0, result |-> "Ok"]

\* No enumeration is running.
EnumIdle ==
  /\ pc = "idle"
  /\ graph_edges = {}
  /\ policy = "all"
  /\ queue = <<>>
  /\ cycle_detector = {}
  /\ visited = <<>>
  /\ iterations = 0
  /\ log = <<>>

Init ==
  /\ \E node \in NodeHandles :
       /\ path = from_node(node)
       /\ prev = from_node(node)
       /\ prev2 = from_node(node)
       /\ op = [kind |-> "from_node", source |-> 0, sink |-> node,
                result |-> "Ok"]
  /\ op2 = NoOp
  /\ ok_appends = 0
  /\ jumps_resolved = 0
  /\ calls = 0
  /\ EnumIdle
  /\ VariableIdle

AppendEdge ==
  /\ calls < MaxCalls
  /\ calls' = calls + 1
  /\ \E edge \in EdgesAt(path.end_node) :
       LET r == append(path, edge)
       IN  /\ path' = r.path
           /\ op' = [kind |-> "append", source |-> edge.source,
                     sink |-> edge.sink, result |-> r.result]
           /\ ok_appends' = IF r.result = "Ok" THEN ok_appends + 1 ELSE ok_appends
  /\ prev' = path
  /\ prev2' = prev
  /\ op2' = op
  /\ UNCHANGED jumps_resolved
  /\ UNCHANGED <<enumVars, variableVars>>

ResolveJump ==
  /\ calls < MaxCalls
  /\ calls' = calls + 1
  /\ LET r == resolve(path)
     IN  /\ path' = r.path
         /\ op' = [kind |-> "resolve", source |-> 0, sink |-> 0,
                   result |-> r.result]
         /\ jumps_resolved' =
              IF r.path.scope_stack_postcondition # path.scope_stack_postcondition
              THEN jumps_resolved + 1 ELSE jumps_resolved
  /\ prev' = path
  /\ prev2' = prev
  /\ op2' = op
  /\ UNCHANGED ok_appends
  /\ UNCHANGED <<enumVars, variableVars>>

Next == AppendEdge \/ ResolveJump

Spec == Init /\ [][Next]_vars

-----------------------------------------------------------------------------
\* Orderings.  An Ordering is "Less", "Equal" or "Greater".

then_with(first, second) == IF first # "Equal" THEN first ELSE second

cmp_handle(a, b) == IF a < b THEN "Less" ELSE IF a > b THEN "Greater" ELSE "Equal"

\* graph[symbol].cmp: the order of the interned strings; "a" < "b".
cmp_symbol(a, b) == cmp_handle(a, b)

\* Deque::cmp_with on handles: element-wise from the front, a proper prefix is Less.
RECURSIVE cmp_with(_, _)
cmp_with(a, b) ==
  IF a = <<>> /\ b = <<>> THEN "Equal"
  ELSE IF a = <<>> THEN "Less"
  ELSE IF b = <<>> THEN "Greater"
  ELSE then_with(cmp_handle(Head(a), Head(b)), cmp_with(Tail(a), Tail(b)))

\* cmp_option on Option<ScopeStackVariable>: None is less than Some.
cmp_option_variable(a, b) ==
  IF a = NoVariable /\ b = NoVariable THEN "Equal"
  ELSE IF a = NoVariable THEN "Less"
  ELSE IF b = NoVariable THEN "Greater"
  ELSE cmp_handle(a, b)

ScopeStack_cmp(self, other) ==
  then_with(cmp_with(self.scopes, other.scopes),
            cmp_option_variable(self.variable, other.variable))

\* cmp_option on Option<PartialScopeStack>.
cmp_option_scopes(a, b) ==
  IF ~a.some /\ ~b.some THEN "Equal"
  ELSE IF ~a.some THEN "Less"
  ELSE IF ~b.some THEN "Greater"
  ELSE ScopeStack_cmp(a.stack, b.stack)

ScopedSymbol_cmp(self, other) ==
  then_with(cmp_symbol(self.symbol, other.symbol),
            cmp_option_scopes(self.scopes, other.scopes))

\* Mutant of PartialSymbolStack::cmp: the lengths are compared first.
SymbolStack_cmp_by_length(self, other) ==
  IF Len(self) < Len(other) THEN "Less"
  ELSE IF Len(self) > Len(other) THEN "Greater"
  ELSE LET differing == { i \in DOMAIN self :
                            ScopedSymbol_cmp(self[i], other[i]) # "Equal" }
       IN  IF differing = {}
           THEN "Equal"
           ELSE LET first == CHOOSE i \in differing :
                               \A k \in differing : i <= k
                IN  ScopedSymbol_cmp(self[first], other[first])

\* Mutant of PartialSymbolStack::cmp: two stacks that run out together are not
\* found Equal.
RECURSIVE SymbolStack_cmp_never_equal(_, _)
SymbolStack_cmp_never_equal(self, other) ==
  IF self # <<>>
  THEN IF other # <<>>
       THEN LET result == ScopedSymbol_cmp(Head(self), Head(other))
            IN  IF result = "Equal"
                THEN SymbolStack_cmp_never_equal(Tail(self), Tail(other))
                ELSE result
       ELSE "Greater"
  ELSE "Less"

RECURSIVE SymbolStack_cmp(_, _)
SymbolStack_cmp(self, other) ==
  IF self # <<>>
  THEN IF other # <<>>
       THEN LET result == ScopedSymbol_cmp(Head(self), Head(other))
            IN  IF result = "Equal"
                THEN SymbolStack_cmp(Tail(self), Tail(other))
                ELSE result
       ELSE "Greater"
  ELSE IF other = <<>> THEN "Equal" ELSE "Less"

\* Mutant of PartialPath::cmp: the number of edges is compared as well.
Path_cmp_with_edge_count(self, other) ==
  then_with(cmp_handle(self.edge_count, other.edge_count),
  then_with(cmp_handle(self.start_node, other.start_node),
  then_with(cmp_handle(self.end_node, other.end_node),
  then_with(SymbolStack_cmp(self.symbol_stack_precondition,
                            other.symbol_stack_precondition),
  then_with(SymbolStack_cmp(self.symbol_stack_postcondition,
                            other.symbol_stack_postcondition),
  then_with(ScopeStack_cmp(self.scope_stack_precondition,
                           other.scope_stack_precondition),
            ScopeStack_cmp(self.scope_stack_postcondition,
                           other.scope_stack_postcondition)))))))

Path_cmp(self, other) ==
  then_with(cmp_handle(self.start_node, other.start_node),
  then_with(cmp_handle(self.end_node, other.end_node),
  then_with(SymbolStack_cmp(self.symbol_stack_precondition,
                            other.symbol_stack_precondition),
  then_with(SymbolStack_cmp(self.symbol_stack_postcondition,
                            other.symbol_stack_postcondition),
  then_with(ScopeStack_cmp(self.scope_stack_precondition,
                           other.scope_stack_precondition),
            ScopeStack_cmp(self.scope_stack_postcondition,
                           other.scope_stack_postcondition))))))

-----------------------------------------------------------------------------
\* Equalities.

\* Deque::equals_with on handles: the same length and equal elements.
RECURSIVE equals_with(_, _)
equals_with(a, b) ==
  IF a = <<>> /\ b = <<>> THEN TRUE
  ELSE IF a = <<>> \/ b = <<>> THEN FALSE
  ELSE Head(a) = Head(b) /\ equals_with(Tail(a), Tail(b))

\* equals_option on Option<ScopeStackVariable>.
equals_option_variable(a, b) ==
  IF a = NoVariable /\ b = NoVariable THEN TRUE
  ELSE IF a = NoVariable \/ b = NoVariable THEN FALSE
  ELSE a = b

ScopeStack_equals(self, other) ==
  /\ equals_with(self.scopes, other.scopes)
  /\ equals_option_variable(self.variable, other.variable)

\* equals_option on Option<PartialScopeStack>.
equals_option_scopes(a, b) ==
  IF ~a.some /\ ~b.some THEN TRUE
  ELSE IF ~a.some \/ ~b.some THEN FALSE
  ELSE ScopeStack_equals(a.stack, b.stack)

ScopedSymbol_equals(self, other) ==
  /\ self.symbol = other.symbol
  /\ equals_option_scopes(self.scopes, other.scopes)

RECURSIVE SymbolStack_equals(_, _)
SymbolStack_equals(self, other) ==
  IF self # <<>>
  THEN IF other # <<>>
       THEN IF ~ScopedSymbol_equals(Head(self), Head(other))
            THEN FALSE
            ELSE SymbolStack_equals(Tail(self), Tail(other))
       ELSE FALSE
  ELSE other = <<>>

\* Mutant of PartialPath::equals: the number of edges is compared as well.
Path_equals_with_edge_count(self, other) ==
  /\ self.edge_count = other.edge_count
  /\ self.start_node = other.start_node
  /\ self.end_node = other.end_node
  /\ SymbolStack_equals(self.symbol_stack_precondition,
                        other.symbol_stack_precondition)
  /\ SymbolStack_equals(self.symbol_stack_postcondition,
                        other.symbol_stack_postcondition)
  /\ ScopeStack_equals(self.scope_stack_precondition,
                       other.scope_stack_precondition)
  /\ ScopeStack_equals(self.scope_stack_postcondition,
                       other.scope_stack_postcondition)

Path_equals(self, other) ==
  /\ self.start_node = other.start_node
  /\ self.end_node = other.end_node
  /\ SymbolStack_equals(self.symbol_stack_precondition,
                        other.symbol_stack_precondition)
  /\ SymbolStack_equals(self.symbol_stack_postcondition,
                        other.symbol_stack_postcondition)
  /\ ScopeStack_equals(self.scope_stack_precondition,
                       other.scope_stack_precondition)
  /\ ScopeStack_equals(self.scope_stack_postcondition,
                       other.scope_stack_postcondition)

-----------------------------------------------------------------------------
\* The file under analysis and its graph.

TheFile == 1

root_node == 1

\* Root and JumpTo belong to no file and count as in every file.
is_in_file(node, file) ==
  NodeTable[node].file = 0 \/ NodeTable[node].file = file

\* The nodes of a file, in handle order.
nodes_for_file(file) ==
  SelectSeq([i \in NodeHandles |-> i], LAMBDA n : NodeTable[n].file = file)

\* The edges a file's graph may hold; the graph of a run is any subset.
CandidateEdges ==
  { [source |-> 1,  sink |-> 4],     \* root -> push a
    [source |-> 4,  sink |-> 6],     \* push a -> pop a
    [source |-> 3,  sink |-> 7],     \* exported scope -> pop scoped a
    [source |-> 7,  sink |-> 5],     \* pop scoped a -> push scoped a/3
    [source |-> 5,  sink |-> 7],     \* push scoped a/3 -> pop scoped a
    [source |-> 5,  sink |-> 2],     \* push scoped a/3 -> jump to
    [source |-> 3,  sink |-> 8],     \* exported scope -> drop scopes
    [source |-> 8,  sink |-> 2],     \* drop scopes -> jump to
    [source |-> 3,  sink |-> 9],     \* exported scope -> scope
    [source |-> 9,  sink |-> 3],     \* scope -> exported scope
    [source |-> 10, sink |-> 6],     \* push b -> pop a
    [source |-> 6,  sink |-> 11] }   \* pop a -> a scope of another file

\* The edges of the graph that leave node, in sink order.
outgoing_edges(edges, node) ==
  LET sinks == SelectSeq([i \in NodeHandles |-> i],
                         LAMBDA k : [source |-> node, sink |-> k] \in edges)
  IN  [i \in DOMAIN sinks |-> [source |-> node, sink |-> sinks[i]]]

\* extend_from_file over the remaining extensions: the paths pushed on result.
\* Mutant of extend_from_file: the edges are appended to the path itself, not
\* to a clone of it, so that an attempt starts from what the one before left.
RECURSIVE extend_over_no_clone(_, _, _)
extend_over_no_clone(self, extensions, file) ==
  IF extensions = <<>>
  THEN <<>>
  ELSE LET extension == Head(extensions)
           appended == append(self, extension)
           resolved == resolve(appended.path)
       IN  IF ~is_in_file(extension.sink, file)
           THEN extend_over_no_clone(self, Tail(extensions), file)
           ELSE IF appended.result # "Ok"
           THEN extend_over_no_clone(appended.path, Tail(extensions), file)
           ELSE IF resolved.result # "Ok"
           THEN extend_over_no_clone(resolved.path, Tail(extensions), file)
           ELSE <<resolved.path>>
                  \o extend_over_no_clone(resolved.path, Tail(extensions), file)

\* Mutant of extend_from_file: an edge is followed whatever file its sink is in.
RECURSIVE extend_over_any_file(_, _, _)
extend_over_any_file(self, extensions, file) ==
  IF extensions = <<>>
  THEN <<>>
  ELSE LET extension == Head(extensions)
           rest == extend_over_any_file(self, Tail(extensions), file)
           appended == append(self, extension)
           resolved == resolve(appended.path)
       IN  IF appended.result # "Ok"
           THEN rest
           ELSE IF resolved.result # "Ok"
           THEN rest
           ELSE <<resolved.path>> \o rest

\* Mutant of extend_from_file: a clone is pushed on result whether or not
\* append and resolve succeeded on it.
RECURSIVE extend_over_keeps_failed(_, _, _)
extend_over_keeps_failed(self, extensions, file) ==
  IF extensions = <<>>
  THEN <<>>
  ELSE LET extension == Head(extensions)
           rest == extend_over_keeps_failed(self, Tail(extensions), file)
           appended == append(self, extension)
           resolved == resolve(appended.path)
       IN  IF ~is_in_file(extension.sink, file)
           THEN rest
           ELSE <<resolved.path>> \o rest

RECURSIVE extend_over(_, _, _)
extend_over(self, extensions, file) ==
  IF extensions = <<>>
  THEN <<>>
  ELSE LET extension == Head(extensions)
           rest == extend_over(self, Tail(extensions), file)
           appended == append(self, extension)
           resolved == resolve(appended.path)
       IN  IF ~is_in_file(extension.sink, file)
           THEN rest
           ELSE IF appended.result # "Ok"
           THEN rest
           ELSE IF resolved.result # "Ok"
           THEN rest
           ELSE <<resolved.path>> \o rest

extend_from_file(self, edges, file) ==
  extend_over(self, outgoing_edges(edges, self.end_node), file)

\* CycleDetector::should_process_path.  The detector holds the paths it has
\* accepted.  Policy "all" accepts every path; policy "equal" refuses a path
\* that the comparator finds Equal to a path accepted before; policy "node"
\* refuses a path that ends where a path accepted before ends, so that it
\* accepts at most one path for each node of the graph.
should_process_path(detector, pol, p) ==
  \/ pol = "all"
  \/ /\ pol = "equal"
     /\ \A probe \in detector : Path_cmp(probe, p) # "Equal"
  \/ /\ pol = "node"
     /\ \A probe \in detector : probe.end_node # p.end_node

IsSeedKind(node) ==
  Kind(node) \in {"PushScopedSymbol", "PushSymbol", "ExportedScope"}

Seeds(file) ==
  <<from_node(root_node)>>
    \o [i \in DOMAIN SelectSeq(nodes_for_file(file), IsSeedKind) |->
          from_node(SelectSeq(nodes_for_file(file), IsSeedKind)[i])]

\* No caller-driven path.
PathIdle ==
  /\ path = from_node(root_node)
  /\ prev = from_node(root_node)
  /\ prev2 = from_node(root_node)
  /\ op = NoOp
  /\ op2 = NoOp
  /\ ok_appends = 0
  /\ jumps_resolved = 0
  /\ calls = 0

InitEnum ==
  /\ PathIdle
  /\ VariableIdle
  /\ pc = "seed"
  /\ graph_edges \in SUBSET CandidateEdges
  /\ policy \in {"all", "equal"}
  /\ queue = <<>>
  /\ cycle_detector = {}
  /\ visited = <<>>
  /\ iterations = 0
  /\ log = <<>>

\* One statement of the loop, with the path it handled.
Event(kind, p) == [kind |-> kind, path |-> p]

Events(kind, paths) == [i \in DOMAIN paths |-> Event(kind, paths[i])]

\* Lines 1043-1056: the detector and the seeded queue.
SeedQueue ==
  /\ pc = "seed"
  /\ pc' = "loop"
  /\ queue' = Seeds(TheFile)
  /\ cycle_detector' = {}
  /\ log' = Events("seed", Seeds(TheFile))
  /\ UNCHANGED <<graph_edges, policy, visited, iterations>>
  /\ UNCHANGED <<pathVars, variableVars>>

\* Mutant of the loop: a path the detector refuses goes back on the queue.
SkipPath_requeues ==
  /\ pc = "loop"
  /\ queue # <<>>
  /\ iterations < MaxIterations
  /\ ~should_process_path(cycle_detector, policy, Head(queue))
  /\ queue' = Append(Tail(queue), Head(queue))
  /\ iterations' = iterations + 1
  /\ log' = log \o <<Event("dequeue", Head(queue)), Event("reject", Head(queue))>>
  /\ UNCHANGED <<pc, graph_edges, policy, cycle_detector, visited>>
  /\ UNCHANGED <<pathVars, variableVars>>

\* One iteration of the loop whose path the detector refuses.
SkipPath ==
  /\ pc = "loop"
  /\ queue # <<>>
  /\ iterations < MaxIterations
  /\ ~should_process_path(cycle_detector, policy, Head(queue))
  /\ queue' = Tail(queue)
  /\ iterations' = iterations + 1
  /\ log' = log \o <<Event("dequeue", Head(queue)), Event("reject", Head(queue))>>
  /\ UNCHANGED <<pc, graph_edges, policy, cycle_detector, visited>>
  /\ UNCHANGED <<pathVars, variableVars>>

\* Mutant of the loop: the extensions are pushed on the front of the queue.
ProcessPath_pushes_front ==
  /\ pc = "loop"
  /\ queue # <<>>
  /\ iterations < MaxIterations
  /\ should_process_path(cycle_detector, policy, Head(queue))
  /\ cycle_detector' = cycle_detector \cup {Head(queue)}
  /\ queue' = extend_from_file(Head(queue), graph_edges, TheFile) \o Tail(queue)
  /\ visited' = Append(visited, Head(queue))
  /\ iterations' = iterations + 1
  /\ log' = log \o <<Event("dequeue", Head(queue)), Event("accept", Head(queue))>>
                 \o Events("push", extend_from_file(Head(queue), graph_edges, TheFile))
                 \o <<Event("visit", Head(queue))>>
  /\ UNCHANGED <<pc, graph_edges, policy>>
  /\ UNCHANGED <<pathVars, variableVars>>

\* Mutant of the loop: the path is handed to visit before it is extended.
ProcessPath_visits_first ==
  /\ pc = "loop"
  /\ queue # <<>>
  /\ iterations < MaxIterations
  /\ should_process_path(cycle_detector, policy, Head(queue))
  /\ cycle_detector' = cycle_detector \cup {Head(queue)}
  /\ queue' = Tail(queue) \o extend_from_file(Head(queue), graph_edges, TheFile)
  /\ visited' = Append(visited, Head(queue))
  /\ iterations' = iterations + 1
  /\ log' = log \o <<Event("dequeue", Head(queue)), Event("accept", Head(queue))>>
                 \o <<Event("visit", Head(queue))>>
                 \o Events("push", extend_from_file(Head(queue), graph_edges, TheFile))
  /\ UNCHANGED <<pc, graph_edges, policy>>
  /\ UNCHANGED <<pathVars, variableVars>>

\* One iteration of the loop whose path the detector accepts: the path is
\* extended, its extensions are pushed on the queue, and it is visited.
ProcessPath ==
  /\ pc = "loop"
  /\ queue # <<>>
  /\ iterations < MaxIterations
  /\ should_process_path(cycle_detector, policy, Head(queue))
  /\ cycle_detector' = cycle_detector \cup {Head(queue)}
  /\ queue' = Tail(queue) \o extend_from_file(Head(queue), graph_edges, TheFile)
  /\ visited' = Append(visited, Head(queue))
  /\ iterations' = iterations + 1
  /\ log' = log \o <<Event("dequeue", Head(queue)), Event("accept", Head(queue))>>
                 \o Events("push", extend_from_file(Head(queue), graph_edges, TheFile))
                 \o <<Event("visit", Head(queue))>>
  /\ UNCHANGED <<pc, graph_edges, policy>>
  /\ UNCHANGED <<pathVars, variableVars>>

\* The queue is empty: the function returns.
Return ==
  /\ pc = "loop"
  /\ queue = <<>>
  /\ pc' = "done"
  /\ UNCHANGED <<graph_edges, policy, queue, cycle_detector, visited, iterations,
                 log>>
  /\ UNCHANGED <<pathVars, variableVars>>

NextEnum == SeedQueue \/ SkipPath \/ ProcessPath \/ Return

SpecEnum == InitEnum /\ [][NextEnum]_vars

\* Runs of the enumerator to their end.  The graph is a small subset of edges
\* that hold cycles through the pop nodes: two that pop below the empty
\* symbol stack on every lap, one that pushes the symbol it pops, and one that
\* pushes another symbol, so that append fails on it; and jumps that resolve
\* takes to a scope, leaves for later, or fails on.
RunEdges ==
  { [source |-> 3,  sink |-> 6],     \* exported scope -> pop a
    [source |-> 6,  sink |-> 6],     \* pop a -> pop a
    [source |-> 4,  sink |-> 6],     \* push a -> pop a
    [source |-> 6,  sink |-> 4],     \* pop a -> push a
    [source |-> 10, sink |-> 6],     \* push b -> pop a
    [source |-> 6,  sink |-> 10],    \* pop a -> push b
    [source |-> 3,  sink |-> 7],     \* exported scope -> pop scoped a
    [source |-> 7,  sink |-> 7],     \* pop scoped a -> pop scoped a
    [source |-> 5,  sink |-> 7],     \* push scoped a/3 -> pop scoped a
    [source |-> 7,  sink |-> 2],     \* pop scoped a -> jump to
    [source |-> 3,  sink |-> 8],     \* exported scope -> drop scopes
    [source |-> 8,  sink |-> 2] }    \* drop scopes -> jump to

\* Such a graph has at most this many edges.
MaxEdges == 3

InitRun ==
  /\ PathIdle
  /\ VariableIdle
  /\ pc = "seed"
  /\ graph_edges \in { edges \in SUBSET RunEdges : Cardinality(edges) <= MaxEdges }
  /\ policy \in {"all", "node"}
  /\ queue = <<>>
  /\ cycle_detector = {}
  /\ visited = <<>>
  /\ iterations = 0
  /\ log = <<>>

\* The function is not interrupted: while it can take a step, it does.
SpecRun == InitRun /\ [][NextEnum]_vars /\ WF_vars(NextEnum)

\* A caller-driven path, or a run of the enumerator.
InitAll == Init \/ InitEnum

\* The caller's calls belong to the first, the loop's steps to the second.
NextAll == (pc = "idle" /\ Next) \/ NextEnum

SpecAll == InitAll /\ [][NextAll]_vars

-----------------------------------------------------------------------------
\* Stacks and paths to compare: a caller grows a path with edges that leave
\* its end node, resolves it, and keeps copies of it.  path is the path, prev
\* the last copy kept, prev2 the path as from_node made it.

\* The caller grows and resolves such a path at most this many times.
MaxCompared == 2

InitCompare ==
  /\ \E node \in NodeHandles :
       /\ path = from_node(node)
       /\ prev = from_node(node)
       /\ prev2 = from_node(node)
  /\ op = NoOp
  /\ op2 = NoOp
  /\ ok_appends = 0
  /\ jumps_resolved = 0
  /\ calls = 0
  /\ EnumIdle
  /\ VariableIdle

GrowPath ==
  /\ calls < MaxCompared
  /\ calls' = calls + 1
  /\ \E sink \in NodeHandles :
       path' = append(path, [source |-> path.end_node, sink |-> sink]).path
  /\ UNCHANGED <<prev, prev2, op, op2, ok_appends, jumps_resolved>>
  /\ UNCHANGED <<enumVars, variableVars>>

ResolvePath ==
  /\ calls < MaxCompared
  /\ calls' = calls + 1
  /\ path' = resolve(path).path
  /\ UNCHANGED <<prev, prev2, op, op2, ok_appends, jumps_resolved>>
  /\ UNCHANGED <<enumVars, variableVars>>

\* PartialPath is Clone: the caller keeps the path as it is now.
KeepCopy ==
  /\ prev # path
  /\ prev' = path
  /\ UNCHANGED <<path, prev2, op, op2, ok_appends, jumps_resolved, calls>>
  /\ UNCHANGED <<enumVars, variableVars>>

NextCompare == GrowPath \/ ResolvePath \/ KeepCopy

SpecCompare == InitCompare /\ [][NextCompare]_vars

-----------------------------------------------------------------------------
\* A caller of ScopeStackVariable: it makes variables with initial,
\* fresher_than and try_from, and reads them back with into.

\* The caller makes at most this many calls.
MaxVariableCalls == 2

\* The numbers the caller passes in: the ends of the u32 range, their
\* neighbours, and the two values where one half carries into the other.
U32Inputs ==
  { u32_zero, u32_one, u32(0, 2), u32(0, Half - 1), u32(1, 0),
    u32(Half - 1, Half - 2), u32_MAX }

\* The variables the calls so far gave back.
MadeVariables ==
  { variable_calls[i].variable :
      i \in { j \in DOMAIN variable_calls :
                /\ variable_calls[j].fn # "into"
                /\ variable_calls[j].result = "Ok" } }

InitVariable ==
  /\ PathIdle
  /\ EnumIdle
  /\ VariableIdle

CallInitial ==
  /\ Len(variable_calls) < MaxVariableCalls
  /\ LET r == ScopeStackVariable_initial
     IN  variable_calls' =
           Append(variable_calls,
                  [fn |-> "initial", value |-> u32_zero,
                   result |-> r.result, variable |-> r.variable])
  /\ UNCHANGED <<pathVars, enumVars>>

\* max_used is a number of the caller's, or the number of a variable it holds,
\* as in fresh_scope_stack_variable.
CallFresherThan ==
  /\ Len(variable_calls) < MaxVariableCalls
  /\ \E max_used \in
         U32Inputs \cup { ScopeStackVariable_into(v) : v \in MadeVariables } :
       \E r \in ScopeStackVariable_fresher_than(max_used) :
         variable_calls' =
           Append(variable_calls,
                  [fn |-> "fresher_than", value |-> max_used,
                   result |-> r.result, variable |-> r.variable])
  /\ UNCHANGED <<pathVars, enumVars>>

CallTryFrom ==
  /\ Len(variable_calls) < MaxVariableCalls
  /\ \E value \in U32Inputs :
       LET r == ScopeStackVariable_try_from(value)
       IN  variable_calls' =
             Append(variable_calls,
                    [fn |-> "try_from", value |-> value,
                     result |-> r.result, variable |-> r.variable])
  /\ UNCHANGED <<pathVars, enumVars>>

CallInto ==
  /\ Len(variable_calls) < MaxVariableCalls
  /\ \E variable \in MadeVariables :
       variable_calls' =
         Append(variable_calls,
                [fn |-> "into", value |-> ScopeStackVariable_into(variable),
                 result |-> "Ok", variable |-> variable])
  /\ UNCHANGED <<pathVars, enumVars>>

NextVariable == CallInitial \/ CallFresherThan \/ CallTryFrom \/ CallInto

SpecVariable == InitVariable /\ [][NextVariable]_vars

-----------------------------------------------------------------------------
\* Vocabulary of the properties.

Range(s) == { s[i] : i \in DOMAIN s }

IsPush(node) == Kind(node) \in {"PushSymbol", "PushScopedSymbol"}

IsPop(node) == Kind(node) \in {"PopSymbol", "PopScopedSymbol"}

\* The variables of the attached scope lists of a symbol stack.
AttachedVariables(stack) ==
  { x.scopes.stack.variable :
      x \in { y \in Range(stack) :
                y.scopes.some /\ y.scopes.stack.variable # NoVariable } }

\* The variable of a scope stack, as a set.
StackVariable(s) == IF s.variable # NoVariable THEN {s.variable} ELSE {}

PreconditionVariables(p) ==
  AttachedVariables(p.symbol_stack_precondition)
    \cup StackVariable(p.scope_stack_precondition)

PostconditionVariables(p) ==
  AttachedVariables(p.symbol_stack_postcondition)
    \cup StackVariable(p.scope_stack_postcondition)

AppendedOk(o) == o.kind = "append" /\ o.result = "Ok"

ResolvedOk(o) == o.kind = "resolve" /\ o.result = "Ok"

-----------------------------------------------------------------------------
\* C1 as stated: in every visited path each postcondition variable is in the
\* corresponding precondition: the variable of scope_stack_postcondition is the
\* variable of scope_stack_precondition, and the variables of the attached
\* scope lists of symbol_stack_postcondition are among those of
\* symbol_stack_precondition.
C1_Original ==
  \A p \in Range(visited) :
    /\ StackVariable(p.scope_stack_postcondition)
         \subseteq StackVariable(p.scope_stack_precondition)
    /\ AttachedVariables(p.symbol_stack_postcondition)
         \subseteq AttachedVariables(p.symbol_stack_precondition)

\* C1, amended: in every path handed to the visitor, each variable of a
\* postcondition (the variable of scope_stack_postcondition, the variables of
\* the attached scope lists of symbol_stack_postcondition) occurs in one of the
\* two preconditions of that path, not necessarily the corresponding one.
C1_VisitedPostVariablesInPreconditions ==
  \A p \in Range(visited) :
    PostconditionVariables(p) \subseteq PreconditionVariables(p)

\* The visitor has seen an extended path whose scope stack postcondition
\* carries a variable of the symbol stack precondition, and one whose symbol
\* stack postcondition carries the variable of the scope stack precondition.
C1_Witness ==
  /\ \E p \in Range(visited) :
       /\ p.edge_count > 0
       /\ StackVariable(p.scope_stack_postcondition) # {}
       /\ StackVariable(p.scope_stack_postcondition)
            \subseteq AttachedVariables(p.symbol_stack_precondition)
  /\ \E p \in Range(visited) :
       /\ p.edge_count > 0
       /\ AttachedVariables(p.symbol_stack_postcondition) # {}

-----------------------------------------------------------------------------
\* C2: in every path built from from_node by append and resolve calls, each
\* variable of a postcondition (the variable of scope_stack_postcondition, the
\* variables of the attached scope lists of symbol_stack_postcondition) occurs
\* in a precondition of the same path: no post-only variable exists.
C2_NoPostOnlyVariable ==
  PostconditionVariables(path) \subseteq PreconditionVariables(path)

\* A successful append left a scope stack postcondition whose variable is not
\* the variable of the scope stack precondition.
C2_Witness ==
  /\ AppendedOk(op)
  /\ path.scope_stack_postcondition.variable # NoVariable
  /\ path.scope_stack_postcondition.variable
       # path.scope_stack_precondition.variable

\* C3 as stated: is_productive(from_node(n)) is false for a node of every kind.
C3_Original ==
  op.kind = "from_node" => ~is_productive(path)

\* C3, amended: is_productive(from_node(n)) is false for every node that is not
\* a push node, and true for a PushSymbol or PushScopedSymbol node, whose
\* symbol stack postcondition holds the pushed symbol.
C3_TrivialPathProductiveOnlyForPush ==
  op.kind = "from_node" => (is_productive(path) <=> IsPush(path.start_node))

\* The trivial paths of a push node and of the root have been built.
C3_Witness ==
  /\ op.kind = "from_node"
  /\ Kind(path.start_node) = "Root"
  /\ ~is_productive(path)
  /\ is_productive(from_node(4))

\* The two appends of a push-then-pop round trip have just succeeded: an edge to
\* a push node, then an edge from it to the pop node of the same symbol and
\* the same scopedness.
RoundTrip ==
  /\ AppendedOk(op2)
  /\ AppendedOk(op)
  /\ op.source = op2.sink
  /\ NodeTable[op.sink].symbol = NodeTable[op2.sink].symbol
  /\ \/ Kind(op2.sink) = "PushSymbol" /\ Kind(op.sink) = "PopSymbol"
     \/ Kind(op2.sink) = "PushScopedSymbol" /\ Kind(op.sink) = "PopScopedSymbol"

\* C4 as stated: after the round trip both postconditions are those the path
\* had before the two appends.
C4_Original ==
  RoundTrip =>
    /\ path.symbol_stack_postcondition = prev2.symbol_stack_postcondition
    /\ path.scope_stack_postcondition = prev2.scope_stack_postcondition

\* C4, amended: after the round trip symbol_stack_postcondition is what it was
\* before the two appends; scope_stack_postcondition is what it was for
\* PushSymbol / PopSymbol, and for PushScopedSymbol{s,c} / PopScopedSymbol{s}
\* it is the former scope_stack_postcondition with c pushed on its front.
C4_RoundTrip ==
  RoundTrip =>
    /\ path.symbol_stack_postcondition = prev2.symbol_stack_postcondition
    /\ Kind(op2.sink) = "PushSymbol" =>
         path.scope_stack_postcondition = prev2.scope_stack_postcondition
    /\ Kind(op2.sink) = "PushScopedSymbol" =>
         /\ path.scope_stack_postcondition.scopes =
              <<NodeTable[op2.sink].scope>>
                \o prev2.scope_stack_postcondition.scopes
         /\ path.scope_stack_postcondition.variable =
              prev2.scope_stack_postcondition.variable

\* A scoped round trip on a path that had a symbol on its postcondition and a
\* variable in its scope stack postcondition.
C4_Witness ==
  /\ RoundTrip
  /\ Kind(op2.sink) = "PushScopedSymbol"
  /\ prev2.symbol_stack_postcondition # <<>>
  /\ prev2.scope_stack_postcondition.variable # NoVariable

\* C5: fresh_scope_stack_variable(p) is greater than every variable of the
\* preconditions of p, is 1 when they hold none, and occurs nowhere in p.
C5_FreshVariable ==
  LET fresh == fresh_scope_stack_variable(path)
  IN  /\ \A v \in PreconditionVariables(path) : fresh > v
      /\ PreconditionVariables(path) = {} => fresh = 1
      /\ fresh \notin PreconditionVariables(path)
                        \cup PostconditionVariables(path)

\* A path with two variables in its preconditions, the larger in the symbol stack.
C5_Witness ==
  /\ AppendedOk(op)
  /\ Cardinality(PreconditionVariables(path)) >= 2
  /\ fresh_scope_stack_variable(path) = 3

\* C6: edge_count is the number of appends that returned Ok plus the number of
\* resolves that popped a scope; a call that fails, and a resolve that pops
\* nothing, leave edge_count alone.
C6_EdgeCount ==
  /\ path.edge_count = ok_appends + jumps_resolved
  /\ op.kind \in {"append", "resolve"} /\ op.result # "Ok" =>
       path.edge_count = prev.edge_count
  /\ op.kind = "resolve"
       /\ path.scope_stack_postcondition = prev.scope_stack_postcondition =>
       path.edge_count = prev.edge_count

\* A failed append after an append and a resolve that popped a scope.
C6_Witness ==
  /\ jumps_resolved = 1
  /\ ok_appends >= 1
  /\ op.kind = "append"
  /\ op.result = "UnexpectedAttachedScopeList"
  /\ path.edge_count = 2

\* An append to a JumpTo node on a path whose scope stack postcondition holds
\* scopes was followed by a successful resolve.
JumpCase ==
  /\ is_jump_to(op2.sink)
  /\ contains_scopes(prev.scope_stack_postcondition)

\* C7: after a successful append(e) and a successful resolve, end_node is
\* e.sink, unless e.sink is a JumpTo node and the scope stack postcondition
\* held scopes: then end_node is its former front scope, that scope is gone
\* from it (the rest and the variable kept) and edge_count grew by 2.
C7_AppendThenResolve ==
  AppendedOk(op2) /\ ResolvedOk(op) =>
    IF JumpCase
    THEN /\ path.end_node = Head(prev.scope_stack_postcondition.scopes)
         /\ path.scope_stack_postcondition.scopes =
              Tail(prev.scope_stack_postcondition.scopes)
         /\ path.scope_stack_postcondition.variable =
              prev.scope_stack_postcondition.variable
         /\ prev.scope_stack_postcondition = prev2.scope_stack_postcondition
         /\ path.edge_count = prev2.edge_count + 2
    ELSE /\ path.end_node = op2.sink
         /\ path.edge_count = prev2.edge_count + 1

\* The jump case has happened.
C7_Witness ==
  /\ AppendedOk(op2)
  /\ ResolvedOk(op)
  /\ JumpCase
  /\ path.end_node # op2.sink

\* An edge from end_node to a pop node was appended to a path whose symbol
\* stack postcondition was empty.
PopBelowEmpty ==
  /\ op.kind = "append"
  /\ op.source = prev.end_node
  /\ IsPop(op.sink)
  /\ prev.symbol_stack_postcondition = <<>>

\* C8: a pop below an empty symbol stack postcondition succeeds, adds one
\* symbol with the pop node's symbol at the back of symbol_stack_precondition,
\* keeps the elements it had in order and leaves the postcondition empty; for
\* PopSymbol the added symbol has no attached scope list.
C8_PopBelowEmpty ==
  PopBelowEmpty =>
    /\ op.result = "Ok"
    /\ Len(path.symbol_stack_precondition)
         = Len(prev.symbol_stack_precondition) + 1
    /\ SubSeq(path.symbol_stack_precondition, 1,
              Len(prev.symbol_stack_precondition))
         = prev.symbol_stack_precondition
    /\ path.symbol_stack_precondition[Len(path.symbol_stack_precondition)].symbol
         = NodeTable[op.sink].symbol
    /\ path.symbol_stack_postcondition = <<>>
    /\ Kind(op.sink) = "PopSymbol" =>
         ~path.symbol_stack_precondition[
             Len(path.symbol_stack_precondition)].scopes.some

\* A plain pop below empty on a path whose precondition already held a scoped symbol.
C8_Witness ==
  /\ PopBelowEmpty
  /\ Kind(op.sink) = "PopSymbol"
  /\ prev.symbol_stack_precondition # <<>>
  /\ prev.symbol_stack_precondition[1].scopes.some

\* C9: a PopScopedSymbol{s} below an empty symbol stack postcondition pushes
\* {s, Some([v])} at the back of symbol_stack_precondition and makes
\* scope_stack_postcondition the variable-only stack [v], v the fresh variable
\* of the path before the append; from from_node(ExportedScope) that gives the
\* precondition [{s, Some([$2])}] and scope_stack_postcondition [$2], with
\* scope_stack_precondition still [$1].
C9_ScopedPopBelowEmpty ==
  PopBelowEmpty /\ Kind(op.sink) = "PopScopedSymbol" =>
    LET s == NodeTable[op.sink].symbol
        v == fresh_scope_stack_variable(prev)
        var_only(x) == [scopes |-> <<>>, variable |-> x]
        attached(x) == [some |-> TRUE, stack |-> var_only(x)]
    IN  /\ op.result = "Ok"
        /\ path.symbol_stack_precondition =
             prev.symbol_stack_precondition
               \o <<[symbol |-> s, scopes |-> attached(v)]>>
        /\ path.scope_stack_postcondition = var_only(v)
        /\ v \notin PreconditionVariables(prev)
        /\ (op2.kind = "from_node" /\ Kind(prev.start_node) = "ExportedScope") =>
             /\ path.symbol_stack_precondition =
                  <<[symbol |-> s, scopes |-> attached(2)]>>
             /\ path.scope_stack_postcondition = var_only(2)
             /\ path.scope_stack_precondition = var_only(1)

\* The scoped pop has been appended to from_node(ExportedScope).
C9_Witness ==
  /\ PopBelowEmpty
  /\ Kind(op.sink) = "PopScopedSymbol"
  /\ op2.kind = "from_node"
  /\ Kind(prev.start_node) = "ExportedScope"
  /\ path.scope_stack_postcondition.variable = 2

\* resolve finds nothing to do: end_node is no JumpTo node, or it is one and
\* the scope stack postcondition is a variable with no scopes.
NothingToResolve ==
  /\ op.kind = "resolve"
  /\ \/ ~is_jump_to(prev.end_node)
     \/ /\ is_jump_to(prev.end_node)
        /\ prev.scope_stack_postcondition.variable # NoVariable
        /\ prev.scope_stack_postcondition.scopes = <<>>

\* C10: such a resolve returns Ok and changes no field of the path.
C10_ResolveNoOp ==
  NothingToResolve => op.result = "Ok" /\ path = prev

\* The deferred jump: resolve ran right after an append reached the JumpTo node
\* with a scope stack postcondition that is a variable and no scopes.
C10_Witness ==
  /\ NothingToResolve
  /\ is_jump_to(prev.end_node)
  /\ op2.kind = "append"
  /\ prev2.scope_stack_postcondition.scopes = <<>>
  /\ path.edge_count = 1

-----------------------------------------------------------------------------
\* The path ends at a JumpTo node with a scope stack postcondition that has
\* neither scopes nor a variable.
EmptyJump(p) ==
  /\ is_jump_to(p.end_node)
  /\ p.scope_stack_postcondition.scopes = <<>>
  /\ p.scope_stack_postcondition.variable = NoVariable

\* C11: resolve on a path that ends at a JumpTo node with a scope stack
\* postcondition without scopes and without a variable returns EmptyScopeStack
\* and changes no field of the path; and no such path is ever pushed on the
\* queue of find_all_partial_paths_in_file, waits on it, or is visited.
C11_EmptyScopeStack ==
  /\ (op.kind = "resolve" /\ EmptyJump(prev))
       => (op.result = "EmptyScopeStack" /\ path = prev)
  /\ \A i \in DOMAIN queue : ~EmptyJump(queue[i])
  /\ \A i \in DOMAIN visited : ~EmptyJump(visited[i])
  /\ \A i \in DOMAIN log :
       log[i].kind \in {"push", "visit"} => ~EmptyJump(log[i].path)

\* The enumerator has extended a path along an edge whose append succeeds and
\* reaches a JumpTo node with an exhausted scope stack (the path through
\* DropScopes does it).
C11_Witness ==
  \E i \in DOMAIN log :
    /\ log[i].kind = "visit"
    /\ \E edge \in graph_edges :
         /\ edge.source = log[i].path.end_node
         /\ append(log[i].path, edge).result = "Ok"
         /\ EmptyJump(append(log[i].path, edge).path)
         /\ Kind(edge.source) = "DropScopes"

-----------------------------------------------------------------------------
\* The last call was an append of an edge that does not leave the end node.
WrongSource == op.kind = "append" /\ op.source # prev.end_node

\* C12: append of an edge whose source is not the end node of the path returns
\* IncorrectSourceNode, whatever the kind of the sink, and changes no field of
\* the path: the nodes, the edge count and the four stacks are as before.
C12_IncorrectSourceNode ==
  WrongSource =>
    /\ op.result = "IncorrectSourceNode"
    /\ path.start_node = prev.start_node
    /\ path.end_node = prev.end_node
    /\ path.edge_count = prev.edge_count
    /\ path.symbol_stack_precondition = prev.symbol_stack_precondition
    /\ path.symbol_stack_postcondition = prev.symbol_stack_postcondition
    /\ path.scope_stack_precondition = prev.scope_stack_precondition
    /\ path.scope_stack_postcondition = prev.scope_stack_postcondition

\* The edge led to a pop node whose symbol was on top of the symbol stack
\* postcondition, under a path that had grown before: with the right source
\* the append would have popped it.
C12_Witness ==
  /\ WrongSource
  /\ Kind(op.sink) = "PopSymbol"
  /\ prev.symbol_stack_postcondition # <<>>
  /\ Head(prev.symbol_stack_postcondition).symbol = NodeTable[op.sink].symbol
  /\ prev.edge_count > 0

-----------------------------------------------------------------------------
\* The last call appended an edge to a pop node while the symbol stack
\* postcondition held a symbol.
PopOnTop ==
  /\ op.kind = "append"
  /\ op.source = prev.end_node
  /\ IsPop(op.sink)
  /\ prev.symbol_stack_postcondition # <<>>

\* C13: with t the front of a non-empty symbol stack postcondition, append to
\* PopSymbol{s} returns IncorrectPoppedSymbol if t.symbol differs from s, else
\* UnexpectedAttachedScopeList if t has an attached scope list, else Ok; append
\* to PopScopedSymbol{s} returns IncorrectPoppedSymbol if t.symbol differs from
\* s, else MissingAttachedScopeList if t has no attached scope list, else Ok
\* with the attached list as the new scope stack postcondition.  On an error
\* end_node and edge_count are unchanged.
C13_PopErrors ==
  PopOnTop =>
    LET t == Head(prev.symbol_stack_postcondition)
        s == NodeTable[op.sink].symbol
    IN  /\ Kind(op.sink) = "PopSymbol" =>
             op.result = IF t.symbol # s THEN "IncorrectPoppedSymbol"
                         ELSE IF t.scopes.some
                         THEN "UnexpectedAttachedScopeList"
                         ELSE "Ok"
        /\ Kind(op.sink) = "PopScopedSymbol" =>
             /\ op.result = IF t.symbol # s THEN "IncorrectPoppedSymbol"
                            ELSE IF ~t.scopes.some
                            THEN "MissingAttachedScopeList"
                            ELSE "Ok"
             /\ op.result = "Ok" =>
                  path.scope_stack_postcondition = t.scopes.stack
        /\ op.result # "Ok" =>
             /\ path.end_node = prev.end_node
             /\ path.edge_count = prev.edge_count

\* A plain pop met another symbol that carries an attached scope list: both
\* tests fail and the symbol test decides.
C13_Witness ==
  /\ PopOnTop
  /\ Kind(op.sink) = "PopSymbol"
  /\ Head(prev.symbol_stack_postcondition).symbol # NodeTable[op.sink].symbol
  /\ Head(prev.symbol_stack_postcondition).scopes.some
  /\ op.result = "IncorrectPoppedSymbol"

-----------------------------------------------------------------------------
\* Vocabulary of the loop's log.

\* The edge is one extend_from_file follows from p and keeps.
Survives(p, edge) ==
  /\ edge.source = p.end_node
  /\ is_in_file(edge.sink, TheFile)
  /\ append(p, edge).result = "Ok"
  /\ resolve(append(p, edge).path).result = "Ok"

\* p extended by that edge alone.
Extension(p, edge) == resolve(append(p, edge).path).path

\* The extensions of p, each made from p itself, in the order of the edges.
Extensions(p) ==
  LET kept == SelectSeq(outgoing_edges(graph_edges, p.end_node),
                        LAMBDA edge : Survives(p, edge))
  IN  [k \in DOMAIN kept |-> Extension(p, kept[k])]

\* The position of the dequeue that opened the iteration log position i is in.
DequeueBefore(i) ==
  CHOOSE j \in 1..i :
    /\ log[j].kind = "dequeue"
    /\ \A k \in (j + 1)..i : log[k].kind # "dequeue"

\* The paths pushed between log positions j and i.
PushedBetween(j, i) ==
  LET pushes == SelectSeq([k \in 1..(i - j - 1) |-> log[j + k]],
                          LAMBDA event : event.kind = "push")
  IN  [k \in DOMAIN pushes |-> pushes[k].path]

\* C14: extend_from_file(p) leaves p as it was, whether its attempts succeed
\* or fail: the path handed to visit after it is the path that was dequeued,
\* field for field; and the extensions it pushes are those of that p, each by
\* its own edge alone, whatever was appended for the edges before it.
C14_ExtendLeavesPath ==
  \A i \in DOMAIN log :
    log[i].kind = "visit" =>
      LET j == DequeueBefore(i)
          p == log[j].path
      IN  /\ log[i].path.start_node = p.start_node
          /\ log[i].path.end_node = p.end_node
          /\ log[i].path.edge_count = p.edge_count
          /\ log[i].path.symbol_stack_precondition = p.symbol_stack_precondition
          /\ log[i].path.symbol_stack_postcondition = p.symbol_stack_postcondition
          /\ log[i].path.scope_stack_precondition = p.scope_stack_precondition
          /\ log[i].path.scope_stack_postcondition = p.scope_stack_postcondition
          /\ PushedBetween(j, i) = Extensions(p)

\* In one run, a visited path got two extensions whose stacks differ from its
\* own, and a visited path had an attempt that failed after the pop had removed
\* a symbol from the clone.
C14_Witness ==
  /\ \E i \in DOMAIN log :
       /\ log[i].kind = "visit"
       /\ Len(Extensions(log[i].path)) >= 2
       /\ \A k \in DOMAIN Extensions(log[i].path) :
            \/ Extensions(log[i].path)[k].symbol_stack_precondition
                 # log[i].path.symbol_stack_precondition
            \/ Extensions(log[i].path)[k].scope_stack_postcondition
                 # log[i].path.scope_stack_postcondition
  /\ \E i \in DOMAIN log :
       /\ log[i].kind = "visit"
       /\ \E edge \in graph_edges :
            /\ edge.source = log[i].path.end_node
            /\ append(log[i].path, edge).result # "Ok"
            /\ append(log[i].path, edge).path # log[i].path

-----------------------------------------------------------------------------
\* The variable-only scope stack [$1].
InitialVariableOnly == [scopes |-> <<>>, variable |-> 1]

\* The scope stack without scopes and without a variable.
NoScopesNoVariable == [scopes |-> <<>>, variable |-> 0]

\* C15: from_node(n) has start_node = end_node = n, edge_count 0 and an empty
\* symbol stack precondition.  For PushSymbol{s} both scope stacks are empty
\* and the symbol stack postcondition is [{s, None}]; for PushScopedSymbol{s, c}
\* the scope stack precondition is empty, the scope stack postcondition is [c]
\* and the symbol stack postcondition is [{s, Some([c])}]; for every other kind
\* the symbol stack postcondition is empty and both scope stacks are [$1].
C15_FromNode ==
  op.kind = "from_node" =>
    LET n == NodeTable[op.sink]
    IN  /\ path.start_node = op.sink
        /\ path.end_node = op.sink
        /\ path.edge_count = 0
        /\ path.symbol_stack_precondition = <<>>
        /\ n.kind = "PushSymbol" =>
             /\ path.scope_stack_precondition = NoScopesNoVariable
             /\ path.scope_stack_postcondition = NoScopesNoVariable
             /\ path.symbol_stack_postcondition =
                  << [symbol |-> n.symbol,
                      scopes |-> [some |-> FALSE, stack |-> NoScopesNoVariable]] >>
        /\ n.kind = "PushScopedSymbol" =>
             /\ path.scope_stack_precondition = NoScopesNoVariable
             /\ path.scope_stack_postcondition =
                  [scopes |-> <<n.scope>>, variable |-> 0]
             /\ path.symbol_stack_postcondition =
                  << [symbol |-> n.symbol,
                      scopes |-> [some |-> TRUE,
                                  stack |-> [scopes |-> <<n.scope>>,
                                             variable |-> 0]]] >>
        /\ n.kind \notin {"PushSymbol", "PushScopedSymbol"} =>
             /\ path.scope_stack_precondition = InitialVariableOnly
             /\ path.scope_stack_postcondition = InitialVariableOnly
             /\ path.symbol_stack_postcondition = <<>>

\* A path fresh from a PushScopedSymbol node.
C15_Witness ==
  /\ op.kind = "from_node"
  /\ Kind(op.sink) = "PushScopedSymbol"
  /\ path.symbol_stack_postcondition # <<>>

-----------------------------------------------------------------------------
\* C16: is_complete_as_possible is true exactly when the start node is the
\* root or an exported scope, or a push node that is a reference with the
\* symbol stack precondition empty, and the end node is the root or a jump-to
\* node, or a pop node that is a definition with the symbol stack
\* postcondition empty.  Stated for every marking of the path's two nodes as
\* reference and definition.
C16_CompleteAsPossible ==
  \A graph \in Graphs({path.start_node, path.end_node}) :
    is_complete_as_possible(path, graph)
      <=> /\ \/ Kind(path.start_node) = "Root"
             \/ Kind(path.start_node) = "ExportedScope"
             \/ /\ IsPush(path.start_node)
                /\ path.start_node \in graph.references
                /\ path.symbol_stack_precondition = <<>>
          /\ \/ Kind(path.end_node) = "Root"
             \/ Kind(path.end_node) = "JumpTo"
             \/ /\ IsPop(path.end_node)
                /\ path.end_node \in graph.definitions
                /\ path.symbol_stack_postcondition = <<>>

\* A path from a push node to a pop node with a symbol left on its
\* postcondition, after an append: not complete even where the nodes are a
\* reference and a definition.
C16_Witness ==
  /\ IsPush(path.start_node)
  /\ IsPop(path.end_node)
  /\ path.symbol_stack_precondition = <<>>
  /\ path.symbol_stack_postcondition # <<>>
  /\ AppendedOk(op)
  /\ \E graph \in Graphs({path.start_node, path.end_node}) :
       /\ is_reference(graph, path.start_node)
       /\ is_definition(graph, path.end_node)
       /\ ~is_complete_as_possible(path, graph)

-----------------------------------------------------------------------------
\* The stacks the caller holds: those of its path now, before the last call
\* and before the call before it.
HeldPaths == {path, prev, prev2}

\* The symbol stacks of a path.
SymbolStacksOf(p) ==
  {p.symbol_stack_precondition, p.symbol_stack_postcondition}

\* The scope stacks of a path, those attached to its symbols included.
ScopeStacksOf(p) ==
  {p.scope_stack_precondition, p.scope_stack_postcondition}
    \cup { x.scopes.stack :
             x \in { y \in Range(p.symbol_stack_precondition)
                            \cup Range(p.symbol_stack_postcondition) :
                       y.scopes.some } }

HeldSymbolStacks == UNION { SymbolStacksOf(p) : p \in HeldPaths }

HeldScopeStacks == UNION { ScopeStacksOf(p) : p \in HeldPaths }

\* C17: two partial scope stacks match exactly when they have the same scopes
\* in the same order and the same optional variable, which is when they are
\* equal; two partial symbol stacks match exactly when they have the same
\* length and, position by position, equal symbols, attached scope lists on
\* both sides or on neither, and matching attached lists.
C17_Matches ==
  /\ \A a \in HeldScopeStacks : \A b \in HeldScopeStacks :
       /\ ScopeStack_matches(a, b)
            <=> (a.scopes = b.scopes /\ a.variable = b.variable)
       /\ ScopeStack_matches(a, b) <=> ScopeStack_equals(a, b)
  /\ \A a \in HeldSymbolStacks : \A b \in HeldSymbolStacks :
       SymbolStack_matches(a, b)
         <=> /\ Len(a) = Len(b)
             /\ \A i \in DOMAIN a :
                  /\ a[i].symbol = b[i].symbol
                  /\ a[i].scopes.some <=> b[i].scopes.some
                  /\ a[i].scopes.some =>
                       ScopeStack_matches(a[i].scopes.stack, b[i].scopes.stack)

\* The caller holds two scope stacks that differ in the variable only, and two
\* symbol stacks of one length and with the same symbols of which one has an
\* attached scope list where the other has none: neither pair matches.
C17_Witness ==
  /\ \E a \in HeldScopeStacks : \E b \in HeldScopeStacks :
       /\ a.scopes = b.scopes
       /\ a.variable # b.variable
       /\ ~ScopeStack_matches(a, b)
  /\ \E a \in HeldSymbolStacks : \E b \in HeldSymbolStacks :
       /\ a # <<>>
       /\ Len(a) = Len(b)
       /\ \A i \in DOMAIN a : a[i].symbol = b[i].symbol
       /\ \E i \in DOMAIN a : a[i].scopes.some /\ ~b[i].scopes.some
       /\ ~SymbolStack_matches(a, b)

-----------------------------------------------------------------------------
\* C18: every partial symbol stack, partial scope stack and partial path that
\* from_node, append and resolve produce matches itself (the stacks), equals
\* itself and compares Equal to itself.  Every such path is the caller's path
\* in some state.
C18_Reflexive ==
  /\ \A x \in SymbolStacksOf(path) :
       /\ SymbolStack_matches(x, x)
       /\ SymbolStack_equals(x, x)
       /\ SymbolStack_cmp(x, x) = "Equal"
  /\ \A x \in ScopeStacksOf(path) :
       /\ ScopeStack_matches(x, x)
       /\ ScopeStack_equals(x, x)
       /\ ScopeStack_cmp(x, x) = "Equal"
  /\ Path_equals(path, path)
  /\ Path_cmp(path, path) = "Equal"

\* The path has grown a symbol stack of two symbols, one with an attached
\* scope list that has a scope and a variable.
C18_Witness ==
  /\ path.edge_count >= 2
  /\ \E x \in SymbolStacksOf(path) :
       /\ Len(x) >= 2
       /\ \E i \in DOMAIN x :
            /\ x[i].scopes.some
            /\ x[i].scopes.stack.scopes # <<>>
            /\ x[i].scopes.stack.variable # NoVariable

-----------------------------------------------------------------------------
\* The positions at which both symbol stacks have an element and the elements
\* do not compare Equal.
Differing(a, b) ==
  { i \in DOMAIN a \cap DOMAIN b : ScopedSymbol_cmp(a[i], b[i]) # "Equal" }

FirstDiffering(a, b) ==
  CHOOSE i \in Differing(a, b) : \A k \in Differing(a, b) : i <= k

\* C19 as stated: a symbol stack with fewer elements compares Less than one
\* with more, and the longer Greater than the shorter; stacks of different
\* lengths are not equal.
C19_Original ==
  \A a \in HeldSymbolStacks : \A b \in HeldSymbolStacks :
    /\ Len(a) < Len(b) =>
         /\ SymbolStack_cmp(a, b) = "Less"
         /\ SymbolStack_cmp(b, a) = "Greater"
    /\ Len(a) # Len(b) => ~SymbolStack_equals(a, b)

\* C19, amended: PartialSymbolStack::cmp is decided by the first position at
\* which the elements do not compare Equal; only without such a position does
\* the length decide, the shorter stack being Less and the longer Greater.
\* Stacks of different lengths are not equal.
C19_CmpLexicographic ==
  \A a \in HeldSymbolStacks : \A b \in HeldSymbolStacks :
    /\ Differing(a, b) # {} =>
         SymbolStack_cmp(a, b) =
           ScopedSymbol_cmp(a[FirstDiffering(a, b)], b[FirstDiffering(a, b)])
    /\ (Differing(a, b) = {} /\ Len(a) < Len(b)) =>
         /\ SymbolStack_cmp(a, b) = "Less"
         /\ SymbolStack_cmp(b, a) = "Greater"
    /\ Len(a) # Len(b) => ~SymbolStack_equals(a, b)

\* The caller holds a shorter symbol stack that compares Greater than a longer
\* one, and a non-empty stack that is a proper prefix of a longer one.
C19_Witness ==
  /\ \E a \in HeldSymbolStacks : \E b \in HeldSymbolStacks :
       /\ Len(a) < Len(b)
       /\ SymbolStack_cmp(a, b) = "Greater"
       /\ SymbolStack_cmp(b, a) = "Less"
  /\ \E a \in HeldSymbolStacks : \E b \in HeldSymbolStacks :
       /\ a # <<>>
       /\ Len(a) < Len(b)
       /\ Differing(a, b) = {}

-----------------------------------------------------------------------------
\* The paths of the log's events of one kind, in order.
PathsOf(kind) ==
  LET events == SelectSeq(log, LAMBDA event : event.kind = kind)
  IN  [k \in DOMAIN events |-> events[k].path]

\* C20: in find_all_partial_paths_in_file every dequeued path gets the
\* detector's answer; an accepted path is visited exactly once, after its
\* surviving extensions, and nothing else, have been pushed on the queue; a
\* rejected path is neither extended nor visited: the next thing the loop does
\* is to dequeue.  No path is visited or pushed outside such an iteration, and
\* when a path has just been visited the paths pushed for it end the queue.
C20_VisitOncePerAccepted ==
  /\ \A j \in DOMAIN log :
       /\ log[j].kind = "dequeue" =>
            /\ j < Len(log)
            /\ log[j + 1].kind \in {"accept", "reject"}
            /\ log[j + 1].path = log[j].path
       /\ log[j].kind = "reject" =>
            j = Len(log) \/ log[j + 1].kind = "dequeue"
       /\ log[j].kind = "accept" =>
            \E i \in (j + 1)..Len(log) :
              /\ log[i].kind = "visit"
              /\ log[i].path = log[j].path
              /\ \A k \in (j + 1)..(i - 1) : log[k].kind = "push"
              /\ \A k \in DOMAIN Extensions(log[j].path) :
                   \E n \in (j + 1)..(i - 1) :
                     log[n].path = Extensions(log[j].path)[k]
              /\ i = Len(log) \/ log[i + 1].kind = "dequeue"
       /\ log[j].kind \in {"push", "visit"} =>
            /\ j > 1
            /\ log[j - 1].kind \in {"accept", "push"}
       /\ log[j].kind \in {"accept", "reject"} =>
            /\ j > 1
            /\ log[j - 1].kind = "dequeue"
  /\ visited = PathsOf("visit")
  /\ Len(PathsOf("visit")) = Len(PathsOf("accept"))
  /\ (log # <<>> /\ log[Len(log)].kind = "visit") =>
       LET pushed == PushedBetween(DequeueBefore(Len(log)), Len(log))
       IN  /\ Len(queue) >= Len(pushed)
           /\ SubSeq(queue, Len(queue) - Len(pushed) + 1, Len(queue)) = pushed

\* The loop has visited a path after pushing two extensions of it, and has
\* rejected a path.
C20_Witness ==
  /\ \E i \in DOMAIN log :
       /\ log[i].kind = "visit"
       /\ i > 2
       /\ log[i - 1].kind = "push"
       /\ log[i - 2].kind = "push"
  /\ \E j \in DOMAIN log : log[j].kind = "reject"

-----------------------------------------------------------------------------
\* The order of the work queue.

\* The events that put a path on the queue, in the order they happened.
Enqueued == SelectSeq(log, LAMBDA event : event.kind \in {"seed", "push"})

\* The number of paths taken off the queue up to log position i: the path
\* handled at position i is the one that many places down the queue's history.
Served(i) == Cardinality({ k \in 1..i : log[k].kind = "dequeue" })

VisitPositions == { i \in DOMAIN log : log[i].kind = "visit" }

\* For each visit from log position k on, in order, the number of paths taken
\* off the queue before it, n of them before position k.
RECURSIVE VisitsServed(_, _)
VisitsServed(k, n) ==
  IF k > Len(log)
  THEN <<>>
  ELSE IF log[k].kind = "dequeue"
  THEN VisitsServed(k + 1, n + 1)
  ELSE IF log[k].kind = "visit"
  THEN <<n>> \o VisitsServed(k + 1, n)
  ELSE VisitsServed(k + 1, n)

\* C21: the work queue of find_all_partial_paths_in_file is first in, first
\* out.  The paths dequeued so far are, in order, the first paths enqueued, and
\* the queue holds the rest in the order they were enqueued.  So a visited path
\* is the one enqueued at its place in that order, a path enqueued before
\* another is visited before it when both are visited, and no extension is
\* visited before a seed.
C21_FifoOrder ==
  LET enqueued == Enqueued
      dequeued == PathsOf("dequeue")
      served == VisitsServed(1, 0)
  IN  /\ Len(dequeued) <= Len(enqueued)
      /\ \A n \in DOMAIN dequeued : dequeued[n] = enqueued[n].path
      /\ queue = [k \in 1..(Len(enqueued) - Len(dequeued)) |->
                    enqueued[Len(dequeued) + k].path]
      /\ Len(served) = Len(visited)
      /\ \A m \in DOMAIN served :
           /\ served[m] \in DOMAIN enqueued
           /\ visited[m] = enqueued[served[m]].path
           /\ m > 1 =>
                /\ served[m - 1] < served[m]
                /\ enqueued[served[m]].kind = "seed"
                     => enqueued[served[m - 1]].kind = "seed"

\* Two extensions pushed in one iteration have both been visited, in the order
\* they were pushed, after a seed and before an extension pushed later.
C21_Witness ==
  \E i, j, k \in VisitPositions :
    /\ i < j
    /\ j < k
    /\ Enqueued[Served(i)].kind = "push"
    /\ Enqueued[Served(j)].kind = "push"
    /\ Enqueued[Served(k)].kind = "push"
    /\ Served(j) = Served(i) + 1
    /\ log[i].path # log[j].path
    /\ \E s \in VisitPositions :
         /\ Enqueued[Served(s)].kind = "seed"
         /\ Extensions(log[s].path) # <<>>
         /\ Extensions(log[s].path)[1] = log[i].path
         /\ Len(Extensions(log[s].path)) >= 2
         /\ Extensions(log[s].path)[2] = log[j].path

\* The nodes of the file that seed the queue.
SeedNodes ==
  { n \in NodeHandles :
      /\ NodeTable[n].file = TheFile
      /\ Kind(n) \in {"PushScopedSymbol", "PushSymbol", "ExportedScope"} }

PushPositions == { j \in DOMAIN log : log[j].kind = "push" }

\* C22: the queue is seeded with from_node(root) first, then with from_node(n)
\* once for each node n of the file that is a PushScopedSymbol, PushSymbol or
\* ExportedScope node, and with nothing else.  Every path pushed later is the
\* path being handled, extended by one edge of the graph that leaves its end
\* node and whose sink is in the file.  So a visited path starts at the root
\* or at a seeding node of the file, and it ends at a node of the file unless
\* resolve took it to a scope.
C22_Seeding ==
  /\ pc # "seed" =>
       /\ Len(PathsOf("seed")) = 1 + Cardinality(SeedNodes)
       /\ PathsOf("seed")[1] = from_node(root_node)
       /\ \A n \in SeedNodes :
            \E i \in 2..Len(PathsOf("seed")) : PathsOf("seed")[i] = from_node(n)
       /\ \A i \in DOMAIN PathsOf("seed") : log[i].kind = "seed"
  /\ \A j \in PushPositions :
       \E edge \in graph_edges :
         /\ edge.source = log[DequeueBefore(j)].path.end_node
         /\ is_in_file(edge.sink, TheFile)
         /\ append(log[DequeueBefore(j)].path, edge).result = "Ok"
         /\ resolve(append(log[DequeueBefore(j)].path, edge).path).result = "Ok"
         /\ log[j].path = resolve(append(log[DequeueBefore(j)].path, edge).path).path
         /\ log[j].path.end_node # edge.sink =>
              /\ is_jump_to(edge.sink)
              /\ Kind(log[j].path.end_node) = "ExportedScope"
  /\ \A i \in DOMAIN visited :
       /\ visited[i].start_node \in {root_node} \cup SeedNodes
       /\ ~is_in_file(visited[i].end_node, TheFile) =>
            Kind(visited[i].end_node) = "ExportedScope"

\* The loop has visited an extension of a seed of the file, and has extended
\* a visited path at whose end node the graph has an edge to another file.
C22_Witness ==
  /\ \E i \in DOMAIN visited :
       /\ visited[i].start_node \in SeedNodes
       /\ visited[i].edge_count > 0
  /\ \E i \in DOMAIN visited :
       \E edge \in graph_edges :
         /\ edge.source = visited[i].end_node
         /\ ~is_in_file(edge.sink, TheFile)
         /\ append(visited[i], edge).result = "Ok"

-----------------------------------------------------------------------------
\* Runs to the end.

\* The sinks of the edges that leave a node of S for a node of the file.
Successors(edges, S) ==
  { edge.sink : edge \in { e \in edges : e.source \in S /\ is_in_file(e.sink, TheFile) } }

\* The nodes reached from S along such edges, S included.
RECURSIVE ReachFrom(_, _)
ReachFrom(edges, S) ==
  IF Successors(edges, S) \subseteq S
  THEN S
  ELSE ReachFrom(edges, S \cup Successors(edges, S))

\* node lies on a cycle of such edges.
OnCycle(edges, node) == node \in ReachFrom(edges, Successors(edges, {node}))

\* The function has returned: the queue is empty, every path put on it has
\* been taken off it, and the visitor was called once for each accepted path.
Finished ==
  /\ pc = "done"
  /\ queue = <<>>
  /\ Len(PathsOf("dequeue")) = Len(Enqueued)
  /\ Len(visited) = Len(PathsOf("accept"))
  /\ Len(PathsOf("visit")) = Len(PathsOf("accept"))

\* C23: with a detector that accepts finitely many paths, here at most one
\* for each node of the graph, find_all_partial_paths_in_file terminates on
\* every graph, cyclic or not: the queue becomes empty with every enqueued
\* path dequeued, and the visitor has been called once for each accepted
\* path, so finitely many times.
C23_Terminates ==
  (pc = "seed" /\ policy = "node")
    ~> (Finished /\ Len(visited) <= Cardinality(NodeHandles))

\* Such a run has ended on a graph with a cycle through a pop node, after the
\* detector refused paths that the cycle keeps producing.
C23_Witness ==
  /\ policy = "node"
  /\ Cardinality(graph_edges) = MaxEdges
  /\ \E node \in NodeHandles : IsPop(node) /\ OnCycle(graph_edges, node)
  /\ Finished
  /\ Len(PathsOf("reject")) >= 2
  /\ Len(visited) >= 6

\* The graph has a cycle of in-file edges through a pop node that is reached
\* from a node that seeds the queue.
PopCycleReachable ==
  \E node \in ReachFrom(graph_edges, {root_node} \cup SeedNodes) :
    IsPop(node) /\ OnCycle(graph_edges, node)

\* The edges of the graph into pop nodes and scopes of the file: appending
\* one to a path whose symbol_stack_postcondition is empty cannot fail.
QuietEdges ==
  { edge \in graph_edges :
      /\ Kind(edge.sink) \in {"PopSymbol", "PopScopedSymbol", "Scope", "ExportedScope"}
      /\ is_in_file(edge.sink, TheFile) }

\* The seeds whose path starts with an empty symbol_stack_postcondition.
EmptySeeds ==
  { node \in {root_node} \cup SeedNodes :
      from_node(node).symbol_stack_postcondition = <<>> }

\* The graph has a cycle of such edges through a pop node that is reached
\* along such edges from such a seed: every lap pops below the empty stack.
PopBelowEmptyCycle ==
  \E node \in ReachFrom(QuietEdges, EmptySeeds) :
    IsPop(node) /\ OnCycle(QuietEdges, node)

\* q is p extended along edges of the set, the node of popped or a pop node
\* among them.
RECURSIVE ExtendsAlong(_, _, _, _)
ExtendsAlong(q, p, edges, popped) ==
  \E edge \in edges :
    /\ Survives(p, edge)
    /\ \/ /\ Extension(p, edge) = q
          /\ popped \/ IsPop(edge.sink)
       \/ /\ Extension(p, edge).edge_count < q.edge_count
          /\ ExtendsAlong(q, Extension(p, edge), edges, popped \/ IsPop(edge.sink))

\* q ends a lap that p began: it extends p back to p's end node through a pop
\* node, along edges of the set.
IsLap(q, p, edges) ==
  /\ q.end_node = p.end_node
  /\ q.edge_count > p.edge_count
  /\ ExtendsAlong(q, p, edges, FALSE)

\* C24 as stated: with a detector that accepts every path, a cycle of in-file
\* edges through a pop node that is reachable from a seed keeps the
\* enumeration from terminating, and the path that ends a lap is not
\* cmp-Equal to any path visited before it.
C24_Original ==
  (pc # "seed" /\ policy = "all" /\ PopCycleReachable) =>
    /\ pc # "done"
    /\ queue # <<>>
    /\ \A i, j \in DOMAIN visited :
         (i < j /\ \E k \in 1..(j - 1) : IsLap(visited[j], visited[k], graph_edges))
           => Path_cmp(visited[i], visited[j]) # "Equal"

\* C24, as the code has it: with a detector that accepts every path, a cycle
\* through a pop node, made of edges into pop nodes and scopes and reached
\* along such edges from a seed with an empty symbol_stack_postcondition,
\* keeps the enumeration from terminating: the queue never becomes empty, and
\* the path that ends a lap of it has a longer symbol_stack_precondition than
\* the path that began the lap, so the two are not cmp-Equal.
C24_PopBelowEmptyCycleRunsOn ==
  (pc # "seed" /\ policy = "all" /\ PopBelowEmptyCycle) =>
    /\ pc # "done"
    /\ queue # <<>>
    /\ \A i, j \in DOMAIN visited :
         (/\ visited[i].start_node \in EmptySeeds
          /\ visited[i].symbol_stack_postcondition = <<>>
          /\ IsLap(visited[j], visited[i], QuietEdges))
           => /\ Len(visited[j].symbol_stack_precondition)
                   > Len(visited[i].symbol_stack_precondition)
              /\ Path_cmp(visited[i], visited[j]) # "Equal"

\* The loop has run as long as the model lets it, and has visited a path and
\* the path that ends a lap from it, twice.
C24_Witness ==
  /\ policy = "all"
  /\ PopBelowEmptyCycle
  /\ iterations = MaxIterations
  /\ \E i, j, k \in DOMAIN visited :
       /\ visited[i].start_node \in EmptySeeds
       /\ visited[i].symbol_stack_postcondition = <<>>
       /\ IsLap(visited[j], visited[i], QuietEdges)
       /\ IsLap(visited[k], visited[j], QuietEdges)

RejectPositions == { j \in DOMAIN log : log[j].kind = "reject" }

\* C25: with a detector that refuses a path whenever probe.cmp(path) is Equal
\* for a path it accepted before, no two paths handed to the visitor in one
\* enumeration are equal under PartialPath::equals; a path the detector
\* refuses equals a path visited before it, and is not extended.
C25_NoEqualVisits ==
  policy = "equal" =>
    /\ \A i, j \in DOMAIN visited :
         i # j => ~Path_equals(visited[i], visited[j])
    /\ \A j \in RejectPositions :
         /\ \E i \in VisitPositions : i < j /\ Path_equals(log[i].path, log[j].path)
         /\ j = Len(log) \/ log[j + 1].kind = "dequeue"

\* Under such a detector the loop has refused a path that has more edges than
\* the visited path it equals, and has visited several extensions.
C25_Witness ==
  /\ policy = "equal"
  /\ \E j \in RejectPositions :
       \E i \in VisitPositions :
         /\ i < j
         /\ Path_equals(log[i].path, log[j].path)
         /\ log[i].path.edge_count < log[j].path.edge_count
  /\ \E i \in DOMAIN visited : visited[i].edge_count >= 2

-----------------------------------------------------------------------------
\* The attached scope lists of a path.

\* The attached scope lists of a symbol stack, front to back.
AttachedLists(stack) ==
  LET attached == SelectSeq(stack, LAMBDA x : x.scopes.some)
  IN  [i \in DOMAIN attached |-> attached[i].scopes.stack]

\* C26: in a path made by from_node, append and resolve, no symbol of
\* symbol_stack_precondition has an attached scope list that can only match
\* the empty list: an attached list has scopes or a variable.
C26_PreconditionNeverAttachedEmpty ==
  \A p \in HeldPaths :
    \A i \in DOMAIN AttachedLists(p.symbol_stack_precondition) :
      /\ ~can_only_match_empty(AttachedLists(p.symbol_stack_precondition)[i])
      /\ \/ contains_scopes(AttachedLists(p.symbol_stack_precondition)[i])
         \/ AttachedLists(p.symbol_stack_precondition)[i].variable # NoVariable

\* A scoped pop below the empty stack has succeeded on a path whose
\* precondition held a scoped symbol already, on a path from a push node.
C26_Witness ==
  /\ AppendedOk(op)
  /\ Kind(op.sink) = "PopScopedSymbol"
  /\ Len(AttachedLists(path.symbol_stack_precondition)) = 2
  /\ Len(AttachedLists(prev.symbol_stack_precondition)) = 1
  /\ path.scope_stack_precondition.variable = NoVariable

\* prev with the end node and the edge count that a successful append of the
\* last edge gives it, and nothing else changed.
Moved == [prev EXCEPT !.end_node = op.sink, !.edge_count = @ + 1]

\* C27: a successful append of an edge to PushScopedSymbol{s, c} pushes
\* {s, Some(c followed by the scopes of scope_stack_postcondition, with its
\* variable)} on the front of symbol_stack_postcondition and leaves
\* scope_stack_postcondition, both preconditions and start_node as they were;
\* to PushSymbol{s} it pushes {s, None}; to DropScopes it only replaces
\* scope_stack_postcondition by the empty stack; to any other node that is no
\* pop node it changes nothing but end_node and edge_count.
C27_PushAndDropFrame ==
  AppendedOk(op) =>
    /\ Kind(op.sink) = "PushScopedSymbol" =>
         path = [Moved EXCEPT !.symbol_stack_postcondition =
                   << [symbol |-> NodeTable[op.sink].symbol,
                       scopes |-> [some |-> TRUE,
                                   stack |-> [scopes |-> <<NodeTable[op.sink].scope>>
                                                \o prev.scope_stack_postcondition.scopes,
                                              variable |->
                                                prev.scope_stack_postcondition.variable]]] >>
                     \o prev.symbol_stack_postcondition]
    /\ Kind(op.sink) = "PushSymbol" =>
         path = [Moved EXCEPT !.symbol_stack_postcondition =
                   << [symbol |-> NodeTable[op.sink].symbol,
                       scopes |-> [some |-> FALSE,
                                   stack |-> [scopes |-> <<>>, variable |-> 0]]] >>
                     \o prev.symbol_stack_postcondition]
    /\ Kind(op.sink) = "DropScopes" =>
         path = [Moved EXCEPT !.scope_stack_postcondition =
                   [scopes |-> <<>>, variable |-> 0]]
    /\ Kind(op.sink) \in {"Root", "JumpTo", "ExportedScope", "Scope"} =>
         path = Moved
    /\ ~IsPop(op.sink) =>
         /\ path.start_node = prev.start_node
         /\ path.symbol_stack_precondition = prev.symbol_stack_precondition
         /\ path.scope_stack_precondition = prev.scope_stack_precondition

\* A scoped push on a path whose scope_stack_postcondition held a scope, then
\* a DropScopes.
C27_Witness ==
  /\ AppendedOk(op)
  /\ Kind(op.sink) = "DropScopes"
  /\ AppendedOk(op2)
  /\ Kind(op2.sink) = "PushScopedSymbol"
  /\ contains_scopes(prev2.scope_stack_postcondition)
  /\ contains_scopes(prev.scope_stack_postcondition)
  /\ prev.symbol_stack_postcondition # <<>>

\* The scopes that resolve can take a path to.
JumpTargets ==
  { NodeTable[node].scope : node \in { n \in NodeHandles : Kind(n) = "PushScopedSymbol" } }

\* The nodes one step from S: by an edge, or from a JumpTo node by resolve.
StepFrom(S) ==
  Successors(graph_edges, S)
    \cup (IF \E node \in S : is_jump_to(node) THEN JumpTargets ELSE {})

RECURSIVE StepsFrom(_)
StepsFrom(S) == IF StepFrom(S) \subseteq S THEN S ELSE StepsFrom(S \cup StepFrom(S))

\* No node can be reached again from itself by edges or jump resolution.
Acyclic == \A node \in NodeHandles : node \notin StepsFrom(StepFrom({node}))

\* The paths the queue is seeded with.
SeedPaths == { from_node(node) : node \in {root_node} \cup SeedNodes }

\* The paths of a set, with the extensions that survive, theirs, and so on for
\* depth rounds.
RECURSIVE ClosureUpTo(_, _)
ClosureUpTo(frontier, depth) ==
  IF frontier = {} \/ depth = 0
  THEN frontier
  ELSE frontier
         \cup ClosureUpTo(
                { Extension(pe[1], pe[2]) :
                    pe \in { x \in frontier \X graph_edges : Survives(x[1], x[2]) } },
                depth - 1)

\* On a graph without cycles a path has fewer edges than the graph has nodes.
SeedClosure == ClosureUpTo(SeedPaths, Cardinality(NodeHandles))

\* C28: with a detector that accepts every path, on a graph in which no node
\* can be reached again from itself by edges or jump resolution,
\* find_all_partial_paths_in_file terminates, and the paths it has visited
\* are exactly the seeds closed under extension: for a visited path and an
\* edge that leaves its end node for a node of the file, the clone after
\* append and resolve, if and only if both succeed.  Each is visited once.
C28_AcyclicClosure ==
  (pc = "seed" /\ policy = "all" /\ Acyclic)
    ~> (/\ Finished
        /\ policy = "all"
        /\ Acyclic
        /\ Range(visited) = SeedClosure
        /\ Len(visited) = Cardinality(SeedClosure)
        /\ \A i \in DOMAIN visited :
             \A edge \in graph_edges :
               /\ Survives(visited[i], edge) =>
                    \E j \in DOMAIN visited : visited[j] = Extension(visited[i], edge)
               /\ (/\ edge.source = visited[i].end_node
                   /\ is_in_file(edge.sink, TheFile)
                   /\ ~Survives(visited[i], edge)
                   /\ append(visited[i], edge).path \notin SeedClosure)
                    => \A j \in DOMAIN visited :
                         visited[j] # append(visited[i], edge).path)

\* Such a run has ended after visiting a path that resolve took to a scope,
\* and after dropping an extension that failed.
C28_Witness ==
  /\ Finished
  /\ policy = "all"
  /\ Acyclic
  /\ \E i \in DOMAIN visited :
       /\ visited[i].edge_count >= 3
       /\ Kind(visited[i].start_node) = "PushScopedSymbol"
       /\ Kind(visited[i].end_node) = "ExportedScope"
  /\ \E i \in DOMAIN visited :
       \E edge \in graph_edges :
         /\ edge.source = visited[i].end_node
         /\ ~Survives(visited[i], edge)

\* The paths the loop has put on the queue or handed to the visitor.
LoggedPaths == { log[i].path : i \in DOMAIN log }

\* C29: a path handed to the visitor that ends at a JumpTo node has a
\* scope_stack_postcondition with no scopes and with a variable: the jump is
\* left for later.  No such path holds scopes there or can only match the
\* empty stack: resolve has taken the first to a scope and refused the second.
\* The scope of every PushScopedSymbol node is an ExportedScope node.
C29_VisitedJumpsDeferred ==
  /\ \A node \in NodeHandles :
       Kind(node) = "PushScopedSymbol" => Kind(NodeTable[node].scope) = "ExportedScope"
  /\ \A i \in DOMAIN visited :
       is_jump_to(visited[i].end_node) =>
         /\ ~contains_scopes(visited[i].scope_stack_postcondition)
         /\ visited[i].scope_stack_postcondition.variable # NoVariable
         /\ ~can_only_match_empty(visited[i].scope_stack_postcondition)
  /\ \A p \in LoggedPaths :
       is_jump_to(p.end_node) =>
         p.scope_stack_postcondition.scopes = <<>>
           /\ p.scope_stack_postcondition.variable # NoVariable

\* The loop has visited a path that ends at a JumpTo node, and a path that
\* resolve took from a JumpTo node to a scope.
C29_Witness ==
  /\ \E i \in DOMAIN visited :
       /\ is_jump_to(visited[i].end_node)
       /\ visited[i].edge_count >= 2
  /\ \E i \in DOMAIN visited :
       \E edge \in graph_edges :
         /\ edge.source = visited[i].end_node
         /\ is_jump_to(edge.sink)
         /\ Survives(visited[i], edge)
         /\ Extension(visited[i], edge).end_node # edge.sink
         /\ \E j \in DOMAIN visited : visited[j] = Extension(visited[i], edge)

\* C30: in a path made by from_node, append and resolve, every attached scope
\* list of symbol_stack_postcondition holds at least one scope; every attached
\* scope list of symbol_stack_precondition holds no scope and one variable;
\* the variables of the precondition's attached lists increase strictly from
\* front to back, and each is greater than the variable of
\* scope_stack_precondition, when it has one.
C30_AttachedListShapes ==
  \A p \in HeldPaths :
    /\ \A i \in DOMAIN AttachedLists(p.symbol_stack_postcondition) :
         Len(AttachedLists(p.symbol_stack_postcondition)[i].scopes) >= 1
    /\ \A i \in DOMAIN AttachedLists(p.symbol_stack_precondition) :
         /\ AttachedLists(p.symbol_stack_precondition)[i].scopes = <<>>
         /\ AttachedLists(p.symbol_stack_precondition)[i].variable # NoVariable
         /\ AttachedLists(p.symbol_stack_precondition)[i].variable
              > p.scope_stack_precondition.variable
         /\ i > 1 =>
              AttachedLists(p.symbol_stack_precondition)[i - 1].variable
                < AttachedLists(p.symbol_stack_precondition)[i].variable

\* A path from an ExportedScope node holds two scoped symbols in its
\* precondition and, after a scoped push, an attached list in its
\* postcondition.
C30_Witness ==
  /\ Len(AttachedLists(path.symbol_stack_precondition)) = 2
  /\ Len(AttachedLists(path.symbol_stack_postcondition)) = 1
  /\ path.scope_stack_precondition.variable # NoVariable
  /\ AppendedOk(op)
  /\ Kind(op.sink) = "PushScopedSymbol"

-----------------------------------------------------------------------------
\* cmp against equals.

\* a and b differ in edge_count and in nothing else.
OnlyEdgeCountDiffers(a, b) ==
  /\ a.edge_count # b.edge_count
  /\ [a EXCEPT !.edge_count = b.edge_count] = b

\* C31: for two partial paths over one graph, cmp is Equal exactly when
\* equals is true, and so it is for their symbol stacks and scope stacks;
\* neither looks at edge_count: two paths that differ in edge_count alone are
\* equal and compare Equal.
C31_CmpEqualIffEquals ==
  /\ \A p \in HeldPaths : \A q \in HeldPaths :
       /\ (Path_cmp(p, q) = "Equal") <=> Path_equals(p, q)
       /\ Path_equals(p, q) <=>
            [p EXCEPT !.edge_count = 0] = [q EXCEPT !.edge_count = 0]
       /\ OnlyEdgeCountDiffers(p, q) =>
            Path_equals(p, q) /\ Path_cmp(p, q) = "Equal"
  /\ \A a \in HeldSymbolStacks : \A b \in HeldSymbolStacks :
       (SymbolStack_cmp(a, b) = "Equal") <=> SymbolStack_equals(a, b)
  /\ \A a \in HeldScopeStacks : \A b \in HeldScopeStacks :
       (ScopeStack_cmp(a, b) = "Equal") <=> ScopeStack_equals(a, b)

\* The caller holds two paths that differ in edge_count alone, and a third
\* that has the same nodes and symbol stacks but another scope stack.
C31_Witness ==
  /\ \E p \in HeldPaths : \E q \in HeldPaths : OnlyEdgeCountDiffers(p, q)
  /\ \E p \in HeldPaths : \E q \in HeldPaths :
       /\ p.start_node = q.start_node
       /\ p.end_node = q.end_node
       /\ p.symbol_stack_precondition = q.symbol_stack_precondition
       /\ p.symbol_stack_postcondition = q.symbol_stack_postcondition
       /\ p.scope_stack_postcondition # q.scope_stack_postcondition
       /\ ~Path_equals(p, q)

-----------------------------------------------------------------------------
\* Vocabulary of C32, on the calls of SpecVariable.

\* value is a u32 in 1..2^32-1.
InNonZeroRange(value) ==
  /\ value.hi \in 0..(Half - 1)
  /\ value.lo \in 0..(Half - 1)
  /\ value # u32_zero

\* value is max_used + 1 as numbers, and a u32.
IsPlusOne(value, max_used) ==
  /\ value.hi \in 0..(Half - 1)
  /\ value.lo \in 0..(Half - 1)
  /\ \/ value.hi = max_used.hi /\ value.lo = max_used.lo + 1
     \/ value.hi = max_used.hi + 1 /\ value.lo = 0 /\ max_used.lo = Half - 1

\* The call gave a variable back.
MadeVariable(c) == c.fn # "into" /\ c.result = "Ok"

InitialAsStated(c) ==
  c.fn = "initial" => c.result = "Ok" /\ c.variable.nonzero = u32_one

FresherThanAsStated(c) ==
  c.fn = "fresher_than" =>
    c.result = "Ok" /\ IsPlusOne(c.variable.nonzero, c.value)

TryFromAsStated(c) ==
  c.fn = "try_from" =>
    /\ c.value = u32_zero => c.result = "Err"
    /\ c.value # u32_zero => c.result = "Ok" /\ c.variable.nonzero = c.value

\* The into call at position i returns the number every earlier try_from made
\* its variable from.
IntoAsStated(i) ==
  variable_calls[i].fn = "into" =>
    \A j \in 1..(i - 1) :
      ( /\ variable_calls[j].fn = "try_from"
        /\ variable_calls[j].result = "Ok"
        /\ variable_calls[j].variable = variable_calls[i].variable )
      => variable_calls[i].value = variable_calls[j].value

\* C32 (as stated): every variable that initial(), fresher_than(max) for any
\* u32 max, max = 2^32 - 1 included, or a successful try_from gives back holds
\* a value in 1..2^32-1: initial() is 1, fresher_than(max) is max + 1,
\* try_from(0) fails, 0 is never the value of a variable, and into returns the
\* value given to try_from.
C32_Original ==
  \A i \in DOMAIN variable_calls :
    LET c == variable_calls[i]
    IN  /\ InitialAsStated(c)
        /\ FresherThanAsStated(c)
        /\ TryFromAsStated(c)
        /\ IntoAsStated(i)
        /\ MadeVariable(c) => InNonZeroRange(c.variable.nonzero)

\* C32, where it fails: fresher_than(2^32 - 1) has returned a variable, and the
\* variable holds 0; into then gave 0 back as its number.
C32_Witness ==
  \E i \in DOMAIN variable_calls : \E j \in DOMAIN variable_calls :
    /\ i < j
    /\ variable_calls[i].fn = "fresher_than"
    /\ variable_calls[i].value = u32_MAX
    /\ variable_calls[i].result = "Ok"
    /\ variable_calls[i].variable.nonzero = u32_zero
    /\ variable_calls[j].fn = "into"
    /\ variable_calls[j].variable = variable_calls[i].variable
    /\ variable_calls[j].value = u32_zero

\* C32, everywhere else: the statement holds of every call but
\* fresher_than(2^32 - 1), which panics or returns a variable that holds 0.
C32_DivergesOnlyAtMax ==
  \A i \in DOMAIN variable_calls :
    LET c == variable_calls[i]
    IN  /\ InitialAsStated(c)
        /\ TryFromAsStated(c)
        /\ IntoAsStated(i)
        /\ IF c.fn = "fresher_than" /\ c.value = u32_MAX
           THEN \/ c.result = "panic"
                \/ c.result = "Ok" /\ c.variable.nonzero = u32_zero
           ELSE /\ FresherThanAsStated(c)
                /\ MadeVariable(c) => InNonZeroRange(c.variable.nonzero)

====
